---- MODULE Spec2Model ----
(***************************************************************************)
(* File-Backup-System: the daemon manager (main-project/src/daemon.rs),    *)
(* the detached daemon's global loop, the persisted backup index and the   *)
(* backup engine (main-project/src/backup.rs) with the GUI sessions that   *)
(* drive them, and the per-file scheduler (test/src/backup.rs).            *)
(***************************************************************************)
EXTENDS Integers, Sequences, FiniteSets, TLC

(***************************************************************************)
(* Bounds of the model.                                                    *)
(***************************************************************************)
\* size of the process table: the daemons that can ever be forked have PIDs 1..MaxProcs
MaxProcs == 2
\* largest interval_minutes a settings document holds
MaxInterval == 1
\* number of distinct contents a source file can have
MaxContent == 2
\* number of edits the user makes to source files
MaxEdits == 1
\* number of messages the user sends to one GUI session
MaxMessages == 2
\* number of I/O faults injected on source files
MaxFaults == 1
\* number of threads auto_backup() can spawn in the process
MaxThreads == 3
\* number of auto_backup() calls
MaxSweeps == 2
\* number of turns one per-file loop takes
MaxRuns == 2
\* number of times the user toggles a file's auto-backup
MaxToggles == 1
\* number of source files the user removes
MaxUnlinks == 1

(***************************************************************************)
(* Program constants.                                                      *)
(***************************************************************************)
\* stop(): for i in 0..20
StopPolls == 20
\* run_daemon(): 0..(settings.interval_minutes * 60)
SecsPerMinute == 60
\* BackupSettings::default().interval_minutes (the settings document's default)
DefaultIntervalMinutes == 1

PIDs == 1..MaxProcs
\* the two callers of the daemon verbs (CLI or GUI invocations)
Clients == {1, 2}
\* the GUI sessions that may be open at once
Sessions == {1, 2}

VARIABLES
    \* ---- operating system and files shared by every process
    pidFile,      \* fass_backup_daemon.pid: [present, ino, text]
    alive,        \* PIDs for which kill(pid, 0) succeeds
    dying,        \* PIDs with a fatal signal delivered and not yet gone
    nextPid,      \* next PID fork() hands out
    settingsDoc,  \* persisted BackupSettings: [present, auto_backup_enabled, interval_minutes]
    doc,          \* backup_metadata.json: [kind, files]
    \* ---- each daemon process
    dpc,          \* position of the process in Daemon::start / run_daemon
    running,      \* run_daemon's AtomicBool `running`
    handlers,     \* whether flag::register has installed the SIGINT/SIGTERM handlers
    fdIno,        \* inode behind the PID-file descriptor the process holds
    dset,         \* `settings` loaded by the current loop iteration
    ticks,        \* one-second sleeps done in the current iteration
    swept,        \* whether the current iteration ran auto_backup()
    sigSeen,      \* history: a SIGINT/SIGTERM handler has run in the process
    lateTicks,    \* history: one-second sleeps started after sigSeen (capped)
    \* ---- each caller of the daemon verbs
    cpc,          \* position inside the verb being executed ("idle" between verbs)
    cop,          \* the verb called
    cres,         \* result of the last verb that returned
    cpid,         \* stop(): `pid`
    polls,        \* stop(): liveness polls done by the loop
    opSig,        \* history: signals sent by the verb in progress, <<signal, pid>>
    \* ---- the file system the backup engine works on
    fs,           \* content of each source file; 0: the file does not exist
    bak,          \* content of each file under ~/Backup; 0: the file does not exist
    unreadable,   \* source files that exist and cannot be opened for reading
    readonly,     \* files under ~/Backup that cannot be written
    unlinks,      \* number of source files the user has removed
    \* ---- each GUI session (a process running Backup::update)
    smeta,        \* self.metadata: Option<Arc<Mutex<BackupMetadata>>>, [some, files]
    sfiles,       \* self.files
    bpc,          \* position inside backup(): "idle", "walk", "save"
    bmeta,        \* backup(): `metadata`
    broot,        \* backup(): `selected_folder`
    btodo,        \* backup(): entries of the walk still to visit
    edits,        \* number of edits the user made to source files
    msgs,         \* number of messages each session has handled
    savedFloor,   \* history: most records a completed save wrote since the last DeleteFile
    glitch,       \* source files whose next read fails (a transient I/O error)
    faults,       \* number of I/O faults that have been injected
    copied,       \* history: source files the latest step copied with fs::copy
    sret,         \* result of the session's latest backup_now: -1 none, else Ok(n)
    rerun,        \* history: the backup() run being repeated, [root, by, phase]
    saves,        \* history: number of times save_to_file() has written the document
    flog,         \* history: what the latest step did with each file, in order
    \* ---- the per-file scheduler (test/src/backup.rs) inside one process
    infoDoc,      \* backup_metadata.json as that variant keeps it: [present, list]
    overflowChecks, \* whether the build panics on integer overflow (debug profile)
    spc,          \* position of each caller inside auto_backup()
    sauto,        \* auto_backup(): records of `auto_files` still to visit
    sres,         \* result of the caller's latest auto_backup()
    lockedBy,     \* holder of the RUNNING_BACKUPS mutex, 0: nobody
    runningBackups, \* RUNNING_BACKUPS
    thr,          \* the threads auto_backup() has spawned
    nthr,         \* number of threads spawned so far
    sweeps,       \* number of auto_backup() calls made
    toggles       \* number of times the user has toggled a file's auto-backup

daemonVars == <<dpc, running, handlers, fdIno, dset, ticks, swept, sigSeen, lateTicks>>
osVars == <<pidFile, alive, dying, nextPid, settingsDoc, doc>>
clientVars == <<cpc, cop, cres, cpid, polls, opSig>>
sessionVars ==
    <<smeta, sfiles, bpc, bmeta, broot, btodo, msgs, savedFloor, saves, sret, rerun>>
sweepVars ==
    <<infoDoc, overflowChecks, spc, sauto, sres, lockedBy, runningBackups, thr, nthr,
      sweeps, toggles>>
\* everything the daemon manager and the global loop leave alone
indexVars ==
    <<fs, bak, unreadable, readonly, unlinks, glitch, faults, edits, copied, flog,
      sessionVars, sweepVars>>
vars == <<osVars, daemonVars, clientVars, indexVars>>

(***************************************************************************)
(* The PID file.  Its text is what Daemon::start wrote: the decimal PID,   *)
(* or nothing yet (File::create has truncated it and write_all is still    *)
(* to come).                                                               *)
(***************************************************************************)
PidText == <<"1", "2", "3", "4", "5", "6", "7", "8">>

NoPidFile == [present |-> FALSE, ino |-> 0, text |-> ""]

\* pid.to_string()
ToText(p) == PidText[p]

\* contents.trim().parse::<i32>().ok(): 0 stands for None
ParsePid(t) ==
    IF \E p \in DOMAIN PidText : PidText[p] = t
    THEN CHOOSE p \in DOMAIN PidText : PidText[p] = t
    ELSE 0

\* DaemonManager::get_pid: 0 stands for None
GetPid == IF pidFile.present THEN ParsePid(pidFile.text) ELSE 0

\* nix_signal::kill(Pid::from_raw(pid), None).is_ok()
ProcessExists(p) == p \in alive

\* the value is_running() returns
IsRunning == GetPid # 0 /\ ProcessExists(GetPid)

\* a faulty variant of AfterIsRunning: the stale PID file is left in place
AfterIsRunningKeepStale == pidFile

\* the PID file is_running() leaves: a stale one is removed, any other is left alone
AfterIsRunning ==
    IF GetPid # 0 /\ ~ProcessExists(GetPid) THEN NoPidFile ELSE pidFile

(***************************************************************************)
(* Settings and index documents as start() and the loop read them.         *)
(***************************************************************************)
DefaultSettings ==
    [auto_backup_enabled |-> FALSE, interval_minutes |-> DefaultIntervalMinutes]

\* BackupSettings::load_from_file().unwrap_or_default()
LoadSettings ==
    IF settingsDoc.present
    THEN [auto_backup_enabled |-> settingsDoc.auto_backup_enabled,
          interval_minutes |-> settingsDoc.interval_minutes]
    ELSE DefaultSettings

(***************************************************************************)
(* Source files, backup copies and index records.  A source file is        *)
(* <<root, relative path>>; backup() puts its copy under ~/Backup at the    *)
(* relative path.                                                          *)
(***************************************************************************)
Roots == {"r1", "r2"}
\* a file whose name is not UTF-8 (the bytes of an older encoding)
OddFile == <<"r2", "old-name">>
Files == {<<"r1", "a.txt">>, <<"r1", "notes/b">>, <<"r2", "a.txt">>, OddFile}
BackupPaths == {f[2] : f \in Files}
Contents == 1..MaxContent

\* path.strip_prefix(selected_folder), joined under backup_folder
DestPath(f) == f[2]

\* path.extension(), or "unknown"
FileType(f) == IF f[2] = "a.txt" THEN "txt" ELSE "unknown"

\* Sha256 of a content, as the hex string format!("{:x}") gives; "" is no hash
Digest(c) == <<"sha", c>>
NoHash == <<>>

\* calculate_hash(path): [some, hash]; None when the file cannot be opened or read
CalculateHash(f) ==
    IF fs[f] = 0 \/ f \in unreadable \/ f \in glitch
    THEN [some |-> FALSE, hash |-> NoHash]
    ELSE [some |-> TRUE, hash |-> Digest(fs[f])]

EmptyIndex == [f \in {} |-> 0]

\* Path::to_str() as serde's Serialize for PathBuf uses it: the path as text;
\* "" stands for None (the bytes of the path are not UTF-8)
PathText(f) == IF f = OddFile THEN "" ELSE f[1] \o "/" \o f[2]

\* the PathBuf serde makes of a JSON string
ParsePath(t) == CHOOSE f \in Files : PathText(f) = t

\* the JSON object serde writes for a FileInfo
ToJson(info) ==
    [original_path |-> PathText(info.original_path), backup_path |-> info.backup_path,
     file_type |-> info.file_type, hash |-> info.hash]

\* the FileInfo serde reads from a JSON object
FromJson(j) ==
    [original_path |-> ParsePath(j.original_path), backup_path |-> j.backup_path,
     file_type |-> j.file_type, hash |-> j.hash]

\* every path of the index can be written as a JSON string
Serializable(files) ==
    \A k \in DOMAIN files : PathText(k) # "" /\ PathText(files[k].original_path) # ""

\* the index serde reads from the JSON object `files` of a keyed document
FromKeyed(json) == [f \in {ParsePath(t) : t \in DOMAIN json} |-> FromJson(json[PathText(f)])]

\* HashMap::insert(key, info)
Insert(files, key, info) ==
    [k \in DOMAIN files \cup {key} |-> IF k = key THEN info ELSE files[k]]

\* HashMap::remove / Vec::remove of the record of one path
Remove(files, key) == [k \in DOMAIN files \ {key} |-> files[k]]

\* a faulty variant of FromLegacy: the records are inserted as they are read
RECURSIVE FromLegacyAsRead(_, _)
FromLegacyAsRead(list, files) ==
    IF list = <<>> THEN files
    ELSE LET info == FromJson(Head(list))
         IN FromLegacyAsRead(Tail(list), Insert(files, info.original_path, info))

\* the legacy branch of load_from_file: records of a flat list inserted in order,
\* an empty hash backfilled when the original file can be hashed
RECURSIVE FromLegacy(_, _)
FromLegacy(list, files) ==
    IF list = <<>> THEN files
    ELSE LET info == FromJson(Head(list))
             h == CalculateHash(info.original_path)
             filled == IF info.hash = NoHash /\ h.some
                       THEN [info EXCEPT !.hash = h.hash]
                       ELSE info
         IN FromLegacy(Tail(list), Insert(files, info.original_path, filled))

\* BackupMetadata::load_from_file(): [ok, files]
LoadMetadata ==
    CASE doc.kind = "absent" -> [ok |-> TRUE, files |-> EmptyIndex]
      [] doc.kind = "unreadable" -> [ok |-> FALSE, files |-> EmptyIndex]
      [] doc.kind = "legacy" -> [ok |-> TRUE, files |-> FromLegacy(doc.list, EmptyIndex)]
      [] doc.kind = "keyed" -> [ok |-> TRUE, files |-> FromKeyed(doc.files)]
      [] OTHER -> [ok |-> TRUE, files |-> EmptyIndex]

\* the document save_to_file() writes when it returns Ok
KeyedDoc(files) ==
    [kind |-> "keyed",
     files |-> [t \in {PathText(k) : k \in DOMAIN files} |-> ToJson(files[ParsePath(t)])],
     list |-> <<>>]
AbsentDoc == [kind |-> "absent", files |-> EmptyIndex, list |-> <<>>]
UnreadableDoc == [kind |-> "unreadable", files |-> EmptyIndex, list |-> <<>>]
MalformedDoc == [kind |-> "malformed", files |-> EmptyIndex, list |-> <<>>]

\* save_to_file(): File::create empties the document, to_writer_pretty writes
\* it; a path that is not UTF-8 ends the writing with an error, the document
\* left holding the text written up to there
SaveToFile(files) ==
    IF Serializable(files)
    THEN [ok |-> TRUE, doc |-> KeyedDoc(files)]
    ELSE [ok |-> FALSE, doc |-> MalformedDoc]

\* the record backup() makes of a file
NewFileInfo(f, hash) ==
    [original_path |-> f, backup_path |-> DestPath(f), file_type |-> FileType(f),
     hash |-> hash]

\* no file was touched
NoLog == [f \in Files |-> <<>>]

\* no backup() run is being followed
NoRerun == [root |-> "none", by |-> 0, phase |-> "none"]

SettingsDocs ==
    {[present |-> FALSE, auto_backup_enabled |-> FALSE, interval_minutes |-> 0]}
    \cup [present : {TRUE}, auto_backup_enabled : BOOLEAN,
          interval_minutes : 0..MaxInterval]

(***************************************************************************)
(* Signals.  A fatal signal ends the target a moment after kill(2) has     *)
(* returned to the sender: until then kill(pid, 0) still succeeds.         *)
(***************************************************************************)
Signals == {"SIGINT", "SIGTERM", "SIGKILL"}

\* what signal_hook::flag::register(sig, flag) makes the handler store into the flag
FlagStoredBySignal == TRUE

\* SIGKILL, or SIGINT/SIGTERM before run_daemon has registered its handlers
IsFatal(p, sig) == sig = "SIGKILL" \/ ~handlers[p]

\* nix_signal::kill(Pid::from_raw(p), sig) on an existing process
Deliver(p, sig) ==
    IF IsFatal(p, sig)
    THEN /\ dying' = dying \cup {p}
         /\ UNCHANGED <<running, sigSeen>>
    ELSE /\ running' = [running EXCEPT ![p] = FlagStoredBySignal]
         /\ sigSeen' = [sigSeen EXCEPT ![p] = TRUE]
         /\ UNCHANGED dying

\* the kernel finishes off a process that got a fatal signal
ProcessDies(p) ==
    /\ p \in dying
    /\ alive' = alive \ {p}
    /\ dying' = dying \ {p}
    /\ UNCHANGED <<pidFile, nextPid, settingsDoc, doc, daemonVars, clientVars, indexVars>>

\* the daemon is ended from outside the program (kill -9, the OOM killer), which
\* is how a PID file comes to name a process that does not exist
KilledFromOutside(p) ==
    /\ p \in alive /\ p \notin dying
    /\ dying' = dying \cup {p}
    /\ UNCHANGED <<pidFile, alive, nextPid, settingsDoc, doc, daemonVars, clientVars,
                   indexVars>>

\* a daemon process that can take a step
Runs(p) == p \in alive /\ p \notin dying

(***************************************************************************)
(* The child of Daemon::start(): daemonize_me writes the PID file          *)
(* (File::create, then write_all), start() then calls run_daemon.          *)
(***************************************************************************)
\* File::create(pid_file): a new inode, or the existing one truncated
PidFileCreate(p) ==
    /\ Runs(p) /\ dpc[p] = "forked"
    /\ pidFile' = IF pidFile.present
                  THEN [pidFile EXCEPT !.text = ""]
                  ELSE [present |-> TRUE, ino |-> p, text |-> ""]
    /\ fdIno' = [fdIno EXCEPT ![p] = pidFile'.ino]
    /\ dpc' = [dpc EXCEPT ![p] = "pid_created"]
    /\ UNCHANGED <<alive, dying, nextPid, settingsDoc, doc, running, handlers,
                   dset, ticks, swept, sigSeen, lateTicks, clientVars, indexVars>>

\* fp.write_all(pid.to_string()): lands in the file only if the path still
\* names the inode the descriptor was opened on
PidFileWrite(p) ==
    /\ Runs(p) /\ dpc[p] = "pid_created"
    /\ pidFile' = IF pidFile.present /\ pidFile.ino = fdIno[p]
                  THEN [pidFile EXCEPT !.text = ToText(p)]
                  ELSE pidFile
    /\ dpc' = [dpc EXCEPT ![p] = "detached"]
    /\ UNCHANGED <<alive, dying, nextPid, settingsDoc, doc, running, handlers,
                   fdIno, dset, ticks, swept, sigSeen, lateTicks, clientVars, indexVars>>

\* run_daemon: `running` = true, flag::register(SIGINT, ..), flag::register(SIGTERM, ..)
RegisterHandlers(p) ==
    /\ Runs(p) /\ dpc[p] = "detached"
    /\ running' = [running EXCEPT ![p] = TRUE]
    /\ handlers' = [handlers EXCEPT ![p] = TRUE]
    /\ dpc' = [dpc EXCEPT ![p] = "loop"]
    /\ UNCHANGED <<osVars, fdIno, dset, ticks, swept, sigSeen, lateTicks, clientVars, indexVars>>

\* the tail of run_daemon: remove_file(pid_path), then the process ends
Shutdown(p) ==
    /\ pidFile' = NoPidFile
    /\ alive' = alive \ {p}
    /\ dpc' = [dpc EXCEPT ![p] = "exited"]

\* number of one-second sleeps the `for` of one iteration asks for
SleepSeconds(s) == s.interval_minutes * SecsPerMinute

\* the head of `while running.load()`: leave the loop, or reload the settings
\* and run the sweep if they enable it
LoopHead(p) ==
    /\ Runs(p) /\ dpc[p] = "loop"
    /\ IF running[p]
       THEN /\ dset' = [dset EXCEPT ![p] = LoadSettings]
            /\ swept' = [swept EXCEPT ![p] = LoadSettings.auto_backup_enabled]
            /\ ticks' = [ticks EXCEPT ![p] = 0]
            /\ dpc' = [dpc EXCEPT ![p] = "sleep"]
            /\ UNCHANGED <<pidFile, alive>>
       ELSE /\ Shutdown(p)
            /\ UNCHANGED <<dset, swept, ticks>>
    /\ UNCHANGED <<dying, nextPid, settingsDoc, doc, running, handlers, fdIno,
                   sigSeen, lateTicks, clientVars, indexVars>>

\* one turn of the sleep loop: `if !running { break }`, else sleep one second;
\* the range exhausted, back to the head of the while
SleepTick(p) ==
    /\ Runs(p) /\ dpc[p] = "sleep"
    /\ IF ticks[p] < SleepSeconds(dset[p]) /\ running[p]
       THEN /\ ticks' = [ticks EXCEPT ![p] = @ + 1]
            /\ lateTicks' = [lateTicks EXCEPT ![p] =
                                IF sigSeen[p] /\ @ < 2 THEN @ + 1 ELSE @]
            /\ UNCHANGED dpc
       ELSE /\ dpc' = [dpc EXCEPT ![p] = "loop"]
            /\ UNCHANGED <<ticks, lateTicks>>
    /\ UNCHANGED <<osVars, running, handlers, fdIno, dset, swept, sigSeen, clientVars, indexVars>>

(***************************************************************************)
(* The daemon verbs of DaemonManager, as one caller executes them.         *)
(***************************************************************************)
Verbs == {"start", "stop", "kill", "restart", "status", "is_running"}

FirstPc(op) ==
    CASE op = "start" -> "start_check"
      [] op = "stop" -> "stop_check"
      [] op = "kill" -> "kill_send"
      [] op = "restart" -> "restart_check"
      [] op = "status" -> "status_read"
      [] OTHER -> "is_running_read"

\* a caller invokes a verb
Call(c, op) ==
    /\ cpc[c] = "idle"
    /\ cop' = [cop EXCEPT ![c] = op]
    /\ cpc' = [cpc EXCEPT ![c] = FirstPc(op)]
    /\ cres' = [cres EXCEPT ![c] = "pending"]
    /\ opSig' = [opSig EXCEPT ![c] = {}]
    /\ cpid' = [cpid EXCEPT ![c] = 0]
    /\ UNCHANGED <<osVars, daemonVars, indexVars, polls>>

\* the verb returns r to its caller
Return(c, r) ==
    /\ cpc' = [cpc EXCEPT ![c] = "idle"]
    /\ cres' = [cres EXCEPT ![c] = r]
    /\ cpid' = [cpid EXCEPT ![c] = 0]
    /\ polls' = [polls EXCEPT ![c] = 0]

\* the caller moves on inside the verb
Goto(c, pc) ==
    /\ cpc' = [cpc EXCEPT ![c] = pc]
    /\ UNCHANGED <<cres, cpid, polls>>

\* nix_signal::kill(Pid::from_raw(p), sig) by caller c; FALSE when it returns Err
CanSignal(p) == ProcessExists(p)

SendSignal(c, p, sig) ==
    /\ Deliver(p, sig)
    /\ opSig' = [opSig EXCEPT ![c] = @ \cup {<<sig, p>>}]

\* is_daemon_running(): DaemonManager::is_running
IsRunningVerb(c) ==
    /\ cpc[c] = "is_running_read"
    /\ pidFile' = AfterIsRunning
    /\ cpc' = [cpc EXCEPT ![c] = "idle"]
    /\ cres' = [cres EXCEPT ![c] = IF IsRunning THEN "true" ELSE "false"]
    /\ cpid' = [cpid EXCEPT ![c] = GetPid]
    /\ UNCHANGED polls
    /\ UNCHANGED <<alive, dying, nextPid, settingsDoc, doc, daemonVars, indexVars, cop, opSig>>

\* a faulty variant of StatusText: the settings are not looked at
StatusTextWithoutSettings ==
    IF GetPid = 0 THEN "not_running"
    ELSE IF ~IsRunning THEN "stale"
    ELSE "running"

\* the text status() composes
StatusText ==
    IF GetPid = 0 THEN "not_running"
    ELSE IF ~IsRunning THEN "stale"
    ELSE IF ~settingsDoc.present THEN "running"
    ELSE IF settingsDoc.auto_backup_enabled THEN "running_enabled"
    ELSE "running_disabled"

\* DaemonManager::status
Status(c) ==
    /\ cpc[c] = "status_read"
    /\ pidFile' = AfterIsRunning
    /\ Return(c, StatusText)
    /\ UNCHANGED <<alive, dying, nextPid, settingsDoc, doc, daemonVars, indexVars, cop, opSig>>

\* DaemonManager::kill, up to the SIGKILL
KillSend(c) ==
    /\ cpc[c] = "kill_send"
    /\ IF GetPid = 0
       THEN /\ Return(c, "not_running")
            /\ UNCHANGED <<dying, running, sigSeen, opSig>>
       ELSE IF CanSignal(GetPid)
       THEN /\ SendSignal(c, GetPid, "SIGKILL")
            /\ Goto(c, "kill_cleanup")
       ELSE /\ Return(c, "sigkill_failed")
            /\ UNCHANGED <<dying, running, sigSeen, opSig>>
    /\ UNCHANGED <<pidFile, alive, nextPid, settingsDoc, doc, dpc, handlers, fdIno,
                   dset, ticks, swept, lateTicks, indexVars, cop>>

\* DaemonManager::kill, after the half-second sleep: remove_file, Ok
KillCleanup(c) ==
    /\ cpc[c] = "kill_cleanup"
    /\ pidFile' = NoPidFile
    /\ Return(c, "ok")
    /\ UNCHANGED <<alive, dying, nextPid, settingsDoc, doc, daemonVars, indexVars, cop, opSig>>

\* a faulty variant of StopReturn: restart() goes on to start() whatever
\* stop() returned
StopReturnThenStart(c, r) ==
    IF cop[c] = "restart"
    THEN /\ cpc' = [cpc EXCEPT ![c] = "start_check"]
         /\ cpid' = [cpid EXCEPT ![c] = 0]
         /\ polls' = [polls EXCEPT ![c] = 0]
         /\ UNCHANGED cres
    ELSE Return(c, r)

\* a stop() that returns r: restart() goes on to start() after an Ok, and
\* hands any Err to its own caller
StopReturn(c, r) ==
    IF cop[c] = "restart" /\ r = "ok"
    THEN /\ cpc' = [cpc EXCEPT ![c] = "start_check"]
         /\ cpid' = [cpid EXCEPT ![c] = 0]
         /\ polls' = [polls EXCEPT ![c] = 0]
         /\ UNCHANGED cres
    ELSE Return(c, r)

\* stop(): `if !self.is_running()`
StopCheck(c) ==
    /\ cpc[c] = "stop_check"
    /\ pidFile' = AfterIsRunning
    /\ Goto(c, IF IsRunning THEN "stop_term" ELSE "stop_purge")
    /\ UNCHANGED <<alive, dying, nextPid, settingsDoc, doc, daemonVars, indexVars,
                   cop, opSig>>

\* a faulty variant of StopPurge: the error is returned without removing the PID file
StopPurgeKeepFile(c) ==
    /\ cpc[c] = "stop_purge"
    /\ pidFile' = pidFile
    /\ StopReturn(c, "not_running")
    /\ UNCHANGED <<alive, dying, nextPid, settingsDoc, doc, daemonVars, indexVars,
                   cop, opSig>>

\* stop(): not running: remove_file, Err("Daemon is not running")
StopPurge(c) ==
    /\ cpc[c] = "stop_purge"
    /\ pidFile' = NoPidFile
    /\ StopReturn(c, "not_running")
    /\ UNCHANGED <<alive, dying, nextPid, settingsDoc, doc, daemonVars, indexVars,
                   cop, opSig>>

\* stop(): get_pid, then SIGTERM
StopTerm(c) ==
    /\ cpc[c] = "stop_term"
    /\ IF GetPid = 0
       THEN /\ StopReturn(c, "read_pid_failed")
            /\ UNCHANGED <<dying, running, sigSeen, opSig>>
       ELSE IF CanSignal(GetPid)
       THEN /\ SendSignal(c, GetPid, "SIGTERM")
            /\ cpc' = [cpc EXCEPT ![c] = "stop_poll"]
            /\ cpid' = [cpid EXCEPT ![c] = GetPid]
            /\ polls' = [polls EXCEPT ![c] = 0]
            /\ UNCHANGED cres
       ELSE /\ StopReturn(c, "sigterm_failed")
            /\ UNCHANGED <<dying, running, sigSeen, opSig>>
    /\ UNCHANGED <<pidFile, alive, nextPid, settingsDoc, doc, dpc, handlers, fdIno,
                   dset, ticks, swept, lateTicks, indexVars, cop>>

\* stop(): one turn of `for i in 0..20`: sleep half a second, is_running()
StopPoll(c) ==
    /\ cpc[c] = "stop_poll"
    /\ IF ~IsRunning
       THEN /\ pidFile' = NoPidFile
            /\ StopReturn(c, "ok")
       ELSE /\ pidFile' = pidFile
            /\ polls' = [polls EXCEPT ![c] = @ + 1]
            /\ cpc' = [cpc EXCEPT ![c] =
                          IF polls[c] + 1 = StopPolls THEN "stop_escalate" ELSE "stop_poll"]
            /\ UNCHANGED <<cres, cpid>>
    /\ UNCHANGED <<alive, dying, nextPid, settingsDoc, doc, daemonVars, indexVars,
                   cop, opSig>>

\* stop(): the wait is over: `if self.is_running()` then SIGKILL to `pid`
StopEscalate(c) ==
    /\ cpc[c] = "stop_escalate"
    /\ pidFile' = AfterIsRunning
    /\ IF ~IsRunning
       THEN /\ StopReturn(c, "ok")
            /\ UNCHANGED <<dying, running, sigSeen, opSig>>
       ELSE IF CanSignal(cpid[c])
       THEN /\ SendSignal(c, cpid[c], "SIGKILL")
            /\ Goto(c, "stop_unlink")
       ELSE /\ StopReturn(c, "sigkill_failed")
            /\ UNCHANGED <<dying, running, sigSeen, opSig>>
    /\ UNCHANGED <<alive, nextPid, settingsDoc, doc, dpc, handlers, fdIno,
                   dset, ticks, swept, lateTicks, indexVars, cop>>

\* stop(): after the half-second sleep that follows SIGKILL: remove_file
StopUnlink(c) ==
    /\ cpc[c] = "stop_unlink"
    /\ pidFile' = NoPidFile
    /\ Goto(c, "stop_verify")
    /\ UNCHANGED <<alive, dying, nextPid, settingsDoc, doc, daemonVars, indexVars,
                   cop, opSig>>

\* stop(): `if self.is_running() { Err("Failed to kill daemon process") }`, else Ok
StopVerify(c) ==
    /\ cpc[c] = "stop_verify"
    /\ pidFile' = AfterIsRunning
    /\ StopReturn(c, IF IsRunning THEN "kill_failed" ELSE "ok")
    /\ UNCHANGED <<alive, dying, nextPid, settingsDoc, doc, daemonVars, indexVars,
                   cop, opSig>>

\* a faulty variant of StartCheck: the PID file is cleaned up before the check's answer is used
StartCheckPurgeFirst(c) ==
    /\ cpc[c] = "start_check"
    /\ pidFile' = NoPidFile
    /\ IF IsRunning THEN Return(c, "already_running") ELSE Goto(c, "start_purge")
    /\ UNCHANGED <<alive, dying, nextPid, settingsDoc, doc, daemonVars, indexVars,
                   cop, opSig>>

\* start(): `if self.is_running()`: Err("Daemon is already running ...")
StartCheck(c) ==
    /\ cpc[c] = "start_check"
    /\ pidFile' = AfterIsRunning
    /\ IF IsRunning THEN Return(c, "already_running") ELSE Goto(c, "start_purge")
    /\ UNCHANGED <<alive, dying, nextPid, settingsDoc, doc, daemonVars, indexVars,
                   cop, opSig>>

\* start(): the else branch: remove_file(&self.pid_path)
StartPurge(c) ==
    /\ cpc[c] = "start_purge"
    /\ pidFile' = NoPidFile
    /\ Goto(c, "start_validate")
    /\ UNCHANGED <<alive, dying, nextPid, settingsDoc, doc, daemonVars, indexVars,
                   cop, opSig>>

\* a faulty variant of StartPrecondition: the index is not looked at
StartPreconditionSettingsOnly ==
    IF ~LoadSettings.auto_backup_enabled THEN "disabled" ELSE "met"

\* what the checks of start() on the settings and on the index answer
StartPrecondition ==
    IF ~LoadSettings.auto_backup_enabled THEN "disabled"
    ELSE IF ~LoadMetadata.ok THEN "metadata_failed"
    ELSE IF DOMAIN LoadMetadata.files = {} THEN "no_files"
    ELSE "met"

\* start(): auto-backup must be enabled and the index must hold a record
StartValidate(c) ==
    /\ cpc[c] = "start_validate"
    /\ IF StartPrecondition = "met"
       THEN Goto(c, "start_daemonize")
       ELSE Return(c, StartPrecondition)
    /\ UNCHANGED <<osVars, daemonVars, indexVars, cop, opSig>>

\* fork() inside Daemon::start: the child, when the process table has room
Fork(p) ==
    /\ alive' = alive \cup {p}
    /\ nextPid' = p + 1
    /\ dpc' = [dpc EXCEPT ![p] = "forked"]

\* start(): the log files are created, then daemon.start(): the parent exits
\* and the child goes on to write the PID file and to run_daemon
StartDaemonize(c) ==
    /\ cpc[c] = "start_daemonize"
    /\ \E logs \in BOOLEAN :
          IF ~logs
          THEN /\ Return(c, "log_failed")
               /\ UNCHANGED <<alive, nextPid, dpc>>
          ELSE IF nextPid <= MaxProcs
          THEN /\ Fork(nextPid)
               /\ Return(c, "daemonized")
          ELSE /\ Return(c, "daemonize_failed")
               /\ UNCHANGED <<alive, nextPid, dpc>>
    /\ UNCHANGED <<pidFile, dying, settingsDoc, doc, running, handlers, fdIno, dset,
                   ticks, swept, sigSeen, lateTicks, indexVars, cop, opSig>>

\* a faulty variant of RestartCheck: stop() is called whatever is_running() said
RestartCheckAlwaysStop(c) ==
    /\ cpc[c] = "restart_check"
    /\ pidFile' = AfterIsRunning
    /\ Goto(c, "stop_check")
    /\ UNCHANGED <<alive, dying, nextPid, settingsDoc, doc, daemonVars, indexVars,
                   cop, opSig>>

\* restart(): `if self.is_running()` stop first, else straight to start()
RestartCheck(c) ==
    /\ cpc[c] = "restart_check"
    /\ pidFile' = AfterIsRunning
    /\ Goto(c, IF IsRunning THEN "stop_check" ELSE "start_check")
    /\ UNCHANGED <<alive, dying, nextPid, settingsDoc, doc, daemonVars, indexVars,
                   cop, opSig>>

\* one step of whatever verb caller c is executing
ManagerStep(c) ==
    \/ StartCheck(c) \/ StartPurge(c) \/ StartValidate(c) \/ StartDaemonize(c)
    \/ StopCheck(c) \/ StopPurge(c) \/ StopTerm(c) \/ StopPoll(c)
    \/ StopEscalate(c) \/ StopUnlink(c) \/ StopVerify(c)
    \/ KillSend(c) \/ KillCleanup(c)
    \/ RestartCheck(c) \/ Status(c) \/ IsRunningVerb(c)

\* a whole iteration of `while running.load()`, head to the end of its sleep
\* loop (the flag read true at the head stays true to the end: nothing stores
\* false into it), or the shutdown when the flag reads false
LoopIteration(p) ==
    /\ Runs(p) /\ dpc[p] = "loop"
    /\ IF running[p]
       THEN /\ dset' = [dset EXCEPT ![p] = LoadSettings]
            /\ swept' = [swept EXCEPT ![p] = LoadSettings.auto_backup_enabled]
            /\ ticks' = [ticks EXCEPT ![p] = SleepSeconds(LoadSettings)]
            /\ lateTicks' = [lateTicks EXCEPT ![p] =
                                IF sigSeen[p] /\ SleepSeconds(LoadSettings) > 0
                                THEN 2 ELSE @]
            /\ UNCHANGED <<pidFile, alive, dpc>>
       ELSE /\ Shutdown(p)
            /\ UNCHANGED <<dset, swept, ticks, lateTicks>>
    /\ UNCHANGED <<dying, nextPid, settingsDoc, doc, running, handlers, fdIno,
                   sigSeen, clientVars, indexVars>>

\* one step of daemon process p, the loop taken an iteration at a time
DaemonStep(p) ==
    \/ PidFileCreate(p) \/ PidFileWrite(p) \/ RegisterHandlers(p)
    \/ LoopIteration(p)

\* one step of daemon process p, the loop taken a second at a time
DaemonTickStep(p) ==
    \/ PidFileCreate(p) \/ PidFileWrite(p) \/ RegisterHandlers(p)
    \/ LoopHead(p) \/ SleepTick(p)

(***************************************************************************)
(* The per-file scheduler (test/src/backup.rs): auto_backup() and the      *)
(* threads it spawns, inside one process.  A u64 is four 16-bit limbs,     *)
(* least significant first, so that multiplications keep their width.      *)
(***************************************************************************)
LimbBase == 65536
\* thread::spawn closure: convert_time(...).unwrap_or(3600)
DefaultPeriod == 3600

\* the u64 of a number below LimbBase
U64(n) == <<n, 0, 0, 0>>
\* u64::MAX
MaxU64 == <<LimbBase - 1, LimbBase - 1, LimbBase - 1, LimbBase - 1>>

\* x * k limb by limb, for k below LimbBase: the limbs kept and the carry out
RECURSIVE MulLimbs(_, _, _)
MulLimbs(x, k, carry) ==
    IF x = <<>> THEN [val |-> <<>>, carry |-> carry]
    ELSE LET t == Head(x) * k + carry
             rest == MulLimbs(Tail(x), k, t \div LimbBase)
         IN [val |-> <<t % LimbBase>> \o rest.val, carry |-> rest.carry]

\* x * k1 * k2 ..., left to right as the compiler evaluates it: the wrapped
\* value, and whether one of the multiplications overflowed
RECURSIVE MulChain(_, _)
MulChain(x, ks) ==
    IF ks = <<>> THEN [val |-> x, overflow |-> FALSE]
    ELSE LET m == MulLimbs(x, Head(ks), 0)
             r == MulChain(m.val, Tail(ks))
         IN [val |-> r.val, overflow |-> m.carry # 0 \/ r.overflow]

\* the factors convert_time multiplies `seconds` by; <<>> for another unit
Factors(frequency) ==
    CASE frequency = "Day(s)" -> <<60, 60, 24>>
      [] frequency = "Hour(s)" -> <<60, 60>>
      [] frequency = "Minute(s)" -> <<60>>
      [] OTHER -> <<>>

\* convert_time(info, frequency): [some, val, overflow]
ConvertTime(info, frequency) ==
    IF Factors(frequency) = <<>>
    THEN [some |-> FALSE, val |-> U64(0), overflow |-> FALSE]
    ELSE [some |-> TRUE,
          val |-> MulChain(info.backup_time, Factors(frequency)).val,
          overflow |-> MulChain(info.backup_time, Factors(frequency)).overflow]

\* a record of the flat list
TestFileInfo(f, auto, time, frequency) ==
    [original_path |-> f, backup_path |-> DestPath(f), file_type |-> FileType(f),
     auto_backup |-> auto, backup_time |-> time, backup_frequency |-> frequency]

NoInfo == TestFileInfo(<<"none", "none">>, FALSE, U64(0), "")

\* the values the interval field of the GUI can hold (any text that parses as u64)
Times == {U64(0), <<0, 0, 0, 1>>, MaxU64}
\* the units the GUI offers, and the empty unit of a record backup() has just made
Frequencies == {"Day(s)", "Hour(s)", "Minute(s)", ""}

\* the callers of auto_backup() inside the process
Sweepers == {1, 2}
Threads == 1..MaxThreads

NoThread == [pc |-> "none", info |-> NoInfo, interval |-> U64(0), lhash |-> NoHash, runs |-> 0]

\* records of the list with auto_backup set, in order
AutoFiles(list) == SelectSeq(list, LAMBDA info : info.auto_backup)

\* every sweep variable but the ones named
SweepFrame ==
    <<osVars, daemonVars, clientVars, fs, bak, unreadable, readonly, unlinks, glitch, faults,
      edits, sessionVars>>

\* auto_backup(): the metadata file is looked for, loaded and filtered
SweepLoad(t) ==
    /\ spc[t] = "idle"
    /\ sweeps < MaxSweeps
    /\ sweeps' = sweeps + 1
    /\ IF ~infoDoc.present
       THEN /\ sres' = [sres EXCEPT ![t] = "not_found"]
            /\ UNCHANGED <<spc, sauto>>
       ELSE /\ sauto' = [sauto EXCEPT ![t] = AutoFiles(infoDoc.list)]
            /\ spc' = [spc EXCEPT ![t] = "lock"]
            /\ sres' = [sres EXCEPT ![t] = "none"]
    /\ copied' = {}
    /\ flog' = NoLog
    /\ UNCHANGED <<SweepFrame, infoDoc, overflowChecks, lockedBy, runningBackups, thr, nthr,
                   toggles>>

\* auto_backup(): RUNNING_BACKUPS.lock()
SweepLock(t) ==
    /\ spc[t] = "lock"
    /\ lockedBy = 0
    /\ lockedBy' = t
    /\ spc' = [spc EXCEPT ![t] = "visit"]
    /\ copied' = {}
    /\ flog' = NoLog
    /\ UNCHANGED <<SweepFrame, infoDoc, overflowChecks, sauto, sres, runningBackups, thr,
                   nthr, sweeps, toggles>>

\* thread::spawn for the record info
Spawn(info) ==
    /\ nthr < MaxThreads
    /\ nthr' = nthr + 1
    /\ thr' = [thr EXCEPT ![nthr + 1] = [NoThread EXCEPT !.pc = "spawned", !.info = info]]

\* a faulty variant of SweepVisit: the record's thread is spawned without
\* asking whether the path is in the set
SweepVisitNoCheck(t) ==
    /\ spc[t] = "visit"
    /\ sauto[t] # <<>>
    /\ runningBackups' = runningBackups \cup {Head(sauto[t]).original_path}
    /\ Spawn(Head(sauto[t]))
    /\ sauto' = [sauto EXCEPT ![t] = Tail(@)]
    /\ copied' = {}
    /\ flog' = NoLog
    /\ UNCHANGED <<SweepFrame, infoDoc, overflowChecks, spc, sres, lockedBy, sweeps, toggles>>

\* auto_backup(): one record of auto_files: skipped if its path is in the
\* set, else the path is inserted and the record's thread spawned
SweepVisit(t) ==
    /\ spc[t] = "visit"
    /\ sauto[t] # <<>>
    /\ IF Head(sauto[t]).original_path \in runningBackups
       THEN UNCHANGED <<runningBackups, thr, nthr>>
       ELSE /\ runningBackups' = runningBackups \cup {Head(sauto[t]).original_path}
            /\ Spawn(Head(sauto[t]))
    /\ sauto' = [sauto EXCEPT ![t] = Tail(@)]
    /\ copied' = {}
    /\ flog' = NoLog
    /\ UNCHANGED <<SweepFrame, infoDoc, overflowChecks, spc, sres, lockedBy, sweeps, toggles>>

\* auto_backup(): the for loop over, Ok(()) and the guard dropped
SweepReturn(t) ==
    /\ spc[t] = "visit"
    /\ sauto[t] = <<>>
    /\ lockedBy' = 0
    /\ spc' = [spc EXCEPT ![t] = "idle"]
    /\ sres' = [sres EXCEPT ![t] = "ok"]
    /\ copied' = {}
    /\ flog' = NoLog
    /\ UNCHANGED <<SweepFrame, infoDoc, overflowChecks, sauto, runningBackups, thr, nthr,
                   sweeps, toggles>>

\* the spawned closure up to its loop: `interval`; a multiplication that
\* overflows panics in a build with overflow checks and wraps in one without
ThreadStart(i) ==
    /\ thr[i].pc = "spawned"
    /\ LET c == ConvertTime(thr[i].info, thr[i].info.backup_frequency)
       IN thr' = [thr EXCEPT ![i] =
                     IF c.some /\ c.overflow /\ overflowChecks
                     THEN [@ EXCEPT !.pc = "panicked"]
                     ELSE [@ EXCEPT !.pc = "sleep",
                                    !.interval = IF c.some THEN c.val ELSE U64(DefaultPeriod)]]
    /\ copied' = {}
    /\ flog' = NoLog
    /\ UNCHANGED <<SweepFrame, infoDoc, overflowChecks, spc, sauto, sres, lockedBy,
                   runningBackups, nthr, sweeps, toggles>>

\* fs::copy(f, b) succeeds: the source can be read and the destination written
CanCopy(f, b) == fs[f] # 0 /\ f \notin unreadable /\ b \notin readonly

\* fs::copy of the file to its place under ~/Backup succeeds
CopyWorks(f) == CanCopy(f, DestPath(f))

\* a faulty variant of ThreadIteration: the loop is left when the copy fails
ThreadIterationStopOnError(i) ==
    /\ thr[i].pc = "sleep"
    /\ thr[i].runs < MaxRuns
    /\ LET info == thr[i].info
       IN IF CopyWorks(info.original_path)
          THEN /\ bak' = [bak EXCEPT ![info.backup_path] = fs[info.original_path]]
               /\ copied' = {info.original_path}
               /\ flog' = [NoLog EXCEPT ![info.original_path] = <<"copy">>]
               /\ thr' = [thr EXCEPT ![i].runs = @ + 1,
                                     ![i].lhash = Digest(fs[info.original_path])]
          ELSE /\ thr' = [thr EXCEPT ![i].pc = "ended"]
               /\ copied' = {}
               /\ flog' = [NoLog EXCEPT ![info.original_path] = <<"copy_failed">>]
               /\ UNCHANGED bak
    /\ UNCHANGED <<osVars, daemonVars, clientVars, fs, unreadable, readonly, unlinks, glitch,
                   faults, edits,
                   sessionVars, infoDoc, overflowChecks, spc, sauto, sres, lockedBy,
                   runningBackups, nthr, sweeps, toggles>>

\* one turn of the closure's loop: the sleep, then fs::copy of the file,
\* whose failure is logged; lhash is the digest of what the loop last copied
ThreadIteration(i) ==
    /\ thr[i].pc = "sleep"
    /\ thr[i].runs < MaxRuns
    /\ LET info == thr[i].info
       IN IF CopyWorks(info.original_path)
          THEN /\ bak' = [bak EXCEPT ![info.backup_path] = fs[info.original_path]]
               /\ copied' = {info.original_path}
               /\ flog' = [NoLog EXCEPT ![info.original_path] = <<"copy">>]
               /\ thr' = [thr EXCEPT ![i].runs = @ + 1,
                                     ![i].lhash = Digest(fs[info.original_path])]
          ELSE /\ thr' = [thr EXCEPT ![i].runs = @ + 1]
               /\ copied' = {}
               /\ flog' = [NoLog EXCEPT ![info.original_path] = <<"copy_failed">>]
               /\ UNCHANGED bak
    /\ UNCHANGED <<osVars, daemonVars, clientVars, fs, unreadable, readonly, unlinks, glitch,
                   faults, edits,
                   sessionVars, infoDoc, overflowChecks, spc, sauto, sres, lockedBy,
                   runningBackups, nthr, sweeps, toggles>>

\* ToggleAutoBackup on the k-th file of the list, update_file_info(self.files)
ToggleAuto(k) ==
    /\ toggles < MaxToggles
    /\ infoDoc.present
    /\ k \in 1..Len(infoDoc.list)
    /\ infoDoc' = [infoDoc EXCEPT !.list[k].auto_backup = ~@]
    /\ toggles' = toggles + 1
    /\ copied' = {}
    /\ flog' = NoLog
    /\ UNCHANGED <<SweepFrame, overflowChecks, spc, sauto, sres, lockedBy, runningBackups,
                   thr, nthr, sweeps>>

\* the list save_info() and load_file_info() read: empty when the document
\* is not there
LoadFileInfo == IF infoDoc.present THEN infoDoc.list ELSE <<>>

\* a faulty variant of SaveInfo: every entry is appended
RECURSIVE SaveInfoAppendAll(_, _)
SaveInfoAppendAll(existing, info) ==
    IF info = <<>> THEN existing
    ELSE SaveInfoAppendAll(Append(existing, Head(info)), Tail(info))

\* save_info(): `for new_entry in info`: pushed unless a record of
\* existing_info has its original_path
RECURSIVE SaveInfo(_, _)
SaveInfo(existing, info) ==
    IF info = <<>> THEN existing
    ELSE SaveInfo(IF \E i \in DOMAIN existing :
                         existing[i].original_path = Head(info).original_path
                  THEN existing
                  ELSE Append(existing, Head(info)),
                  Tail(info))

\* save_info(info): the list is read, extended and written back
SaveInfoCall(info) ==
    /\ infoDoc' = [present |-> TRUE, list |-> SaveInfo(LoadFileInfo, info)]
    /\ copied' = {}
    /\ flog' = NoLog
    /\ UNCHANGED <<SweepFrame, overflowChecks, spc, sauto, sres, lockedBy, runningBackups,
                   thr, nthr, sweeps, toggles>>

\* a process in which auto_backup() has not been called
InitScheduler ==
    /\ infoDoc = [present |-> FALSE, list |-> <<>>]
    /\ overflowChecks = FALSE
    /\ spc = [t \in Sweepers |-> "idle"]
    /\ sauto = [t \in Sweepers |-> <<>>]
    /\ sres = [t \in Sweepers |-> "none"]
    /\ lockedBy = 0
    /\ runningBackups = {}
    /\ thr = [i \in Threads |-> NoThread]
    /\ nthr = 0
    /\ sweeps = 0
    /\ toggles = 0

(***************************************************************************)
(* Specification of the daemon life cycle: one caller issuing the verbs    *)
(* one after the other, the daemons it forked, and the kernel.             *)
(***************************************************************************)
OneRecord ==
    Insert(EmptyIndex, <<"r1", "a.txt">>, NewFileInfo(<<"r1", "a.txt">>, Digest(1)))

InitDaemons ==
    /\ dpc = [p \in PIDs |-> "none"]
    /\ running = [p \in PIDs |-> FALSE]
    /\ handlers = [p \in PIDs |-> FALSE]
    /\ fdIno = [p \in PIDs |-> 0]
    /\ dset = [p \in PIDs |-> DefaultSettings]
    /\ ticks = [p \in PIDs |-> 0]
    /\ swept = [p \in PIDs |-> FALSE]
    /\ sigSeen = [p \in PIDs |-> FALSE]
    /\ lateTicks = [p \in PIDs |-> 0]

InitClients ==
    /\ cpc = [c \in Clients |-> "idle"]
    /\ cop = [c \in Clients |-> "none"]
    /\ cres = [c \in Clients |-> "none"]
    /\ cpid = [c \in Clients |-> 0]
    /\ polls = [c \in Clients |-> 0]
    /\ opSig = [c \in Clients |-> {}]

InitFiles ==
    /\ fs = [f \in Files |-> IF f = OddFile THEN 0 ELSE 1]
    /\ bak = [b \in BackupPaths |-> 0]
    /\ unreadable = {}
    /\ readonly = {}
    /\ unlinks = 0
    /\ glitch = {}
    /\ faults = 0
    /\ edits = 0
    /\ copied = {}
    /\ flog = NoLog

InitSessions ==
    /\ smeta = [s \in Sessions |-> [some |-> LoadMetadata.ok, files |-> LoadMetadata.files,
                                               lock |-> "free"]]
    /\ sfiles = [s \in Sessions |-> LoadMetadata.files]
    /\ bpc = [s \in Sessions |-> "idle"]
    /\ bmeta = [s \in Sessions |-> EmptyIndex]
    /\ broot = [s \in Sessions |-> "r1"]
    /\ btodo = [s \in Sessions |-> {}]
    /\ msgs = [s \in Sessions |-> 0]
    /\ savedFloor = 0
    /\ saves = 0
    /\ sret = [s \in Sessions |-> -1]
    /\ rerun = NoRerun

Init ==
    /\ pidFile = NoPidFile
    /\ alive = {}
    /\ dying = {}
    /\ nextPid = 1
    /\ settingsDoc \in SettingsDocs
    /\ doc \in {AbsentDoc, UnreadableDoc, KeyedDoc(OneRecord)}
    /\ InitDaemons
    /\ InitClients
    /\ InitFiles
    /\ InitSessions
    /\ InitScheduler

Next ==
    \/ \E op \in Verbs : Call(1, op)
    \/ ManagerStep(1)
    \/ \E p \in PIDs : DaemonStep(p)
    \/ \E p \in PIDs : KilledFromOutside(p)
    \/ \E p \in PIDs : ProcessDies(p)

Spec == Init /\ [][Next]_vars

(***************************************************************************)
(* Specification of concurrent start() calls: two callers (two clicks on   *)
(* the GUI's start button each spawn a thread that runs start_daemon, two  *)
(* CLI invocations) and the daemons they fork.                             *)
(***************************************************************************)
\* one step of a start() that caller c is executing
StartStep(c) ==
    \/ StartCheck(c) \/ StartPurge(c) \/ StartValidate(c) \/ StartDaemonize(c)

NextRace ==
    \/ \E c \in Clients : Call(c, "start")
    \/ \E c \in Clients : StartStep(c)
    \/ \E p \in PIDs : DaemonStep(p)

SpecRace == Init /\ [][NextRace]_vars

(***************************************************************************)
(* Specification of the daemon's global loop, a second at a time: the      *)
(* daemon a successful start() has just forked, signals sent to it from    *)
(* outside, and the settings document rewritten while it runs.             *)
(***************************************************************************)
\* kill -INT / kill -TERM issued to the daemon (a shell, the system shutting down)
SignalFromOutside(p, sig) ==
    /\ p \in alive
    /\ Deliver(p, sig)
    /\ UNCHANGED <<pidFile, alive, nextPid, settingsDoc, doc, dpc, handlers, fdIno,
                   dset, ticks, swept, lateTicks, clientVars, indexVars>>

\* the settings document is saved with new values: the GUI accepts an interval
\* only if it parses as u64 and is greater than 0
SettingsSaved(enabled, minutes) ==
    /\ minutes > 0
    /\ settingsDoc' = [present |-> TRUE, auto_backup_enabled |-> enabled,
                       interval_minutes |-> minutes]
    /\ UNCHANGED <<pidFile, alive, dying, nextPid, doc, daemonVars, clientVars, indexVars>>

\* start() has returned from Daemon::start's fork: auto-backup is enabled, the
\* index holds a record, and the child is about to write the PID file
InitLoop ==
    /\ pidFile = NoPidFile
    /\ alive = {1}
    /\ dying = {}
    /\ nextPid = 2
    /\ settingsDoc \in {d \in SettingsDocs : d.present /\ d.auto_backup_enabled}
    /\ doc = KeyedDoc(OneRecord)
    /\ dpc = [p \in PIDs |-> IF p = 1 THEN "forked" ELSE "none"]
    /\ running = [p \in PIDs |-> FALSE]
    /\ handlers = [p \in PIDs |-> FALSE]
    /\ fdIno = [p \in PIDs |-> 0]
    /\ dset = [p \in PIDs |-> DefaultSettings]
    /\ ticks = [p \in PIDs |-> 0]
    /\ swept = [p \in PIDs |-> FALSE]
    /\ sigSeen = [p \in PIDs |-> FALSE]
    /\ lateTicks = [p \in PIDs |-> 0]
    /\ InitClients
    /\ InitFiles
    /\ InitSessions
    /\ InitScheduler

NextLoop ==
    \/ \E p \in PIDs : DaemonTickStep(p)
    \/ \E p \in PIDs, sig \in {"SIGINT", "SIGTERM"} : SignalFromOutside(p, sig)
    \/ \E enabled \in BOOLEAN, minutes \in 0..MaxInterval : SettingsSaved(enabled, minutes)
    \/ \E p \in PIDs : ProcessDies(p)

\* the daemon is a process the operating system keeps scheduling: it takes its
\* next step, and a process that got a fatal signal goes away
SpecLoop ==
    /\ InitLoop
    /\ [][NextLoop]_vars
    /\ \A p \in PIDs : WF_vars(DaemonTickStep(p))
    /\ \A p \in PIDs : WF_vars(ProcessDies(p))

(***************************************************************************)
(* Specification of status(): one caller that starts the daemon and asks   *)
(* for its status, the daemons, and the settings document saved or lost    *)
(* while a daemon runs.                                                    *)
(***************************************************************************)
\* the settings document can no longer be loaded: load_from_file() returns Err
SettingsLost ==
    /\ settingsDoc.present
    /\ settingsDoc' = [present |-> FALSE, auto_backup_enabled |-> FALSE,
                       interval_minutes |-> 0]
    /\ UNCHANGED <<pidFile, alive, dying, nextPid, doc, daemonVars, clientVars, indexVars>>

NextStatus ==
    \/ \E op \in {"start", "status"} : Call(1, op)
    \/ StartStep(1)
    \/ Status(1)
    \/ \E p \in PIDs : DaemonStep(p)
    \/ \E p \in PIDs : KilledFromOutside(p)
    \/ \E p \in PIDs : ProcessDies(p)
    \/ \E enabled \in BOOLEAN, minutes \in 0..MaxInterval : SettingsSaved(enabled, minutes)
    \/ SettingsLost

SpecStatus == Init /\ [][NextStatus]_vars

(***************************************************************************)
(* The backup engine and the GUI handlers that write the index.  Each GUI  *)
(* session is a process of its own; nothing but the file system is shared  *)
(* between two of them.                                                    *)
(***************************************************************************)
Records(files) == Cardinality(DOMAIN files)

Max(a, b) == IF a >= b THEN a ELSE b

\* a faulty variant of ShouldCopy: a file whose hash cannot be computed
\* counts as unchanged
ShouldCopySkipUnhashed(meta, f) ==
    IF f \in DOMAIN meta /\ meta[f].hash # NoHash
    THEN CalculateHash(f).some /\ meta[f].hash # CalculateHash(f).hash
    ELSE TRUE

\* backup(): `should_copy` for the file at path f
ShouldCopy(meta, f) ==
    IF f \in DOMAIN meta /\ meta[f].hash # NoHash
    THEN ~CalculateHash(f).some \/ meta[f].hash # CalculateHash(f).hash
    ELSE TRUE

\* a faulty variant of NeedsBackup: the stored hash is not looked at
NeedsBackupAlways(info) ==
    /\ fs[info.original_path] # 0
    /\ CalculateHash(info.original_path).some

\* backup_now(): a record whose original exists, hashes, and `needs_backup`
NeedsBackup(info) ==
    /\ fs[info.original_path] # 0
    /\ CalculateHash(info.original_path).some
    /\ (info.hash = NoHash \/ CalculateHash(info.original_path).hash # info.hash)

\* history: backup() of session s has returned (Ok or Err)
RunReturned(s) ==
    IF rerun.by = s /\ rerun.phase \in {"first", "again"}
    THEN [rerun EXCEPT !.phase = "done"]
    ELSE NoRerun

\* ToUpload, a folder picked: backup(path) loads the index and lists the tree
BackupStart(s, root) ==
    /\ bpc[s] = "idle"
    /\ msgs[s] < MaxMessages
    /\ msgs' = [msgs EXCEPT ![s] = @ + 1]
    /\ bmeta' = [bmeta EXCEPT ![s] = LoadMetadata.files]
    /\ broot' = [broot EXCEPT ![s] = root]
    /\ btodo' = [btodo EXCEPT ![s] = {f \in Files : f[1] = root /\ fs[f] # 0}]
    /\ bpc' = [bpc EXCEPT ![s] = "walk"]
    /\ rerun' = IF rerun.root = root /\ rerun.by = s /\ rerun.phase = "done"
                THEN [rerun EXCEPT !.phase = "again"]
                ELSE [root |-> root, by |-> s, phase |-> "first"]
    /\ copied' = {}
    /\ flog' = NoLog
    /\ UNCHANGED <<osVars, daemonVars, clientVars, fs, bak, unreadable, readonly, unlinks,
                   glitch, faults,
                   smeta, sfiles, edits, savedFloor, saves, sret, sweepVars>>

\* a faulty variant of Upsert: the record is written whether the hash was
\* computed or not
UpsertAlways(meta, f) == Insert(meta, f, NewFileInfo(f, CalculateHash(f).hash))

\* backup(): `if let Some(hash) = new_hash`: the record of f is inserted or
\* replaced when the hash was computed
Upsert(meta, f) ==
    IF CalculateHash(f).some
    THEN Insert(meta, f, NewFileInfo(f, CalculateHash(f).hash))
    ELSE meta

\* what calculate_hash leaves in the log of a file
HashEvent(f) == IF CalculateHash(f).some THEN <<"hash">> ELSE <<"hash_failed">>

\* backup() returns an error to ToUpload: its locals are dropped
BackupFails(s) ==
    /\ bpc' = [bpc EXCEPT ![s] = "idle"]
    /\ btodo' = [btodo EXCEPT ![s] = {}]
    /\ bmeta' = [bmeta EXCEPT ![s] = EmptyIndex]
    /\ broot' = [broot EXCEPT ![s] = "r1"]
    /\ rerun' = RunReturned(s)

\* backup(): one entry of the walk: an entry that is no file any more is
\* passed over; else hash, copy if needed, record; a copy that fails ends
\* backup() with the error, nothing saved
BackupVisit(s) ==
    /\ bpc[s] = "walk"
    /\ \E f \in btodo[s] :
          /\ IF fs[f] = 0
             THEN /\ btodo' = [btodo EXCEPT ![s] = @ \ {f}]
                  /\ copied' = {}
                  /\ flog' = NoLog
                  /\ UNCHANGED <<bak, bmeta, bpc, broot, rerun>>
             ELSE IF ShouldCopy(bmeta[s], f) /\ ~CopyWorks(f)
             THEN /\ BackupFails(s)
                  /\ copied' = {}
                  /\ flog' = [NoLog EXCEPT ![f] = HashEvent(f) \o <<"copy_failed">>]
                  /\ UNCHANGED bak
             ELSE /\ bak' = IF ShouldCopy(bmeta[s], f)
                            THEN [bak EXCEPT ![DestPath(f)] = fs[f]]
                            ELSE bak
                  /\ copied' = IF ShouldCopy(bmeta[s], f) THEN {f} ELSE {}
                  /\ bmeta' = [bmeta EXCEPT ![s] = Upsert(@, f)]
                  /\ flog' = [NoLog EXCEPT ![f] =
                                 HashEvent(f)
                                 \o (IF ShouldCopy(bmeta[s], f) THEN <<"copy">> ELSE <<>>)
                                 \o (IF CalculateHash(f).some THEN <<"record">> ELSE <<>>)]
                  /\ btodo' = [btodo EXCEPT ![s] = @ \ {f}]
                  /\ UNCHANGED <<bpc, broot, rerun>>
          /\ glitch' = glitch \ {f}
    /\ UNCHANGED <<msgs, osVars, daemonVars, clientVars, fs, unreadable, readonly, unlinks,
                   faults, smeta, sfiles, edits, savedFloor, saves, sret, sweepVars>>

\* backup(): the walk over, metadata.save_to_file()?; its error is backup()'s
BackupSave(s) ==
    /\ bpc[s] = "walk" /\ btodo[s] = {}
    /\ doc' = SaveToFile(bmeta[s]).doc
    /\ saves' = saves + 1
    /\ IF SaveToFile(bmeta[s]).ok
       THEN /\ savedFloor' = Max(savedFloor, Records(bmeta[s]))
            /\ bpc' = [bpc EXCEPT ![s] = "reload"]
            /\ bmeta' = [bmeta EXCEPT ![s] = EmptyIndex]
            /\ broot' = [broot EXCEPT ![s] = "r1"]
            /\ rerun' = RunReturned(s)
            /\ UNCHANGED btodo
       ELSE /\ BackupFails(s)
            /\ UNCHANGED savedFloor
    /\ copied' = {}
    /\ flog' = NoLog
    /\ UNCHANGED <<msgs, pidFile, alive, dying, nextPid, settingsDoc, daemonVars, clientVars,
                   fs, bak, unreadable, readonly, unlinks, glitch, faults, smeta, sfiles,
                   edits, sret, sweepVars>>

\* ToUpload after backup() returned Ok: the index is loaded again into
\* self.metadata and self.files
BackupReload(s) ==
    /\ bpc[s] = "reload"
    /\ IF LoadMetadata.ok
       THEN /\ smeta' = [smeta EXCEPT ![s] = [some |-> TRUE, files |-> LoadMetadata.files,
                                                   lock |-> "free"]]
            /\ sfiles' = [sfiles EXCEPT ![s] = LoadMetadata.files]
       ELSE UNCHANGED <<smeta, sfiles>>
    /\ bpc' = [bpc EXCEPT ![s] = "idle"]
    /\ copied' = {}
    /\ flog' = NoLog
    /\ UNCHANGED <<msgs, osVars, daemonVars, clientVars, fs, bak, unreadable, readonly, unlinks,
                   glitch, faults,
                   bmeta, broot, btodo, edits, savedFloor, saves, sret, rerun, sweepVars>>

\* a faulty variant of SaveNeeded: the index is saved whatever the count
SaveNeededAlways(count) == count >= 0

\* backup_now(): `if backed_up_count > 0`
SaveNeeded(count) == count > 0

\* backup_now(): what the loop does with one record, in order
ResyncLog(info) ==
    IF fs[info.original_path] = 0 THEN <<>>
    ELSE IF ~CalculateHash(info.original_path).some THEN <<"hash_failed">>
    ELSE IF ~NeedsBackup(info) THEN <<"hash">>
    ELSE IF CanCopy(info.original_path, info.backup_path) THEN <<"hash", "copy", "record">>
    ELSE <<"hash", "copy_failed">>

\* a faulty variant of AfterResync: the records whose original is missing are
\* dropped from the index
AfterResyncPruned(files, changed) ==
    [k \in {j \in DOMAIN files : fs[j] # 0} |->
        IF k \in changed
        THEN [files[k] EXCEPT !.hash = CalculateHash(k).hash]
        ELSE files[k]]

\* a faulty variant of AfterResync: the hash of a record that needs a backup
\* is updated before the copy is known to have been made
AfterResyncEager(files, changed) ==
    [k \in DOMAIN files |->
        IF NeedsBackup(files[k])
        THEN [files[k] EXCEPT !.hash = CalculateHash(k).hash]
        ELSE files[k]]

\* a faulty variant of AfterResync: the first copy that fails ends the loop,
\* as `?` would, and no record of the run is updated
AfterResyncStopOnError(files, changed) ==
    IF \E k \in DOMAIN files :
           NeedsBackup(files[k]) /\ ~CanCopy(k, files[k].backup_path)
    THEN files
    ELSE [k \in DOMAIN files |->
             IF k \in changed
             THEN [files[k] EXCEPT !.hash = CalculateHash(k).hash]
             ELSE files[k]]

\* backup_now(): the index `for info in metadata.files.values_mut()` leaves:
\* the records of the files copied get the new hash, the others stay
AfterResync(files, changed) ==
    [k \in DOMAIN files |->
        IF k \in changed
        THEN [files[k] EXCEPT !.hash = CalculateHash(k).hash]
        ELSE files[k]]

\* UpdateNow: backup_now(self.metadata): metadata_arc.lock() returns once no
\* one holds the mutex, with Err when it is poisoned; then every record that
\* needs it is copied and, the copy made, re-hashed; the index is saved if
\* any was; sret is the count returned, -2 for the error of a save that
\* failed, -3 for the lock error
UpdateNow(s) ==
    /\ bpc[s] = "idle"
    /\ msgs[s] < MaxMessages
    /\ msgs' = [msgs EXCEPT ![s] = @ + 1]
    /\ smeta[s].some
    /\ smeta[s].lock # "held"
    /\ IF smeta[s].lock = "poisoned"
       THEN
          /\ sret' = [sret EXCEPT ![s] = -3]
          /\ copied' = {}
          /\ flog' = NoLog
          /\ UNCHANGED <<bak, smeta, glitch, doc, savedFloor, saves>>
       ELSE
       LET files == smeta[s].files
           changed == {k \in DOMAIN files :
                          NeedsBackup(files[k]) /\ CanCopy(k, files[k].backup_path)}
           after == AfterResync(files, changed)
       IN /\ bak' \in {g \in [BackupPaths -> 0..MaxContent] :
                          \A b \in BackupPaths :
                              IF \E k \in changed : files[k].backup_path = b
                              THEN \E k \in changed :
                                      files[k].backup_path = b /\ g[b] = fs[k]
                              ELSE g[b] = bak[b]}
          /\ smeta' = [smeta EXCEPT ![s].files = after]
          /\ copied' = changed
          /\ flog' = [f \in Files |-> IF f \in DOMAIN files THEN ResyncLog(files[f]) ELSE <<>>]
          /\ glitch' = glitch \ {k \in DOMAIN files : fs[k] # 0}
          /\ IF SaveNeeded(Cardinality(changed))
             THEN /\ doc' = SaveToFile(after).doc
                  /\ saves' = saves + 1
                  /\ savedFloor' = IF SaveToFile(after).ok
                                   THEN Max(savedFloor, Records(after))
                                   ELSE savedFloor
                  /\ sret' = [sret EXCEPT ![s] =
                                 IF SaveToFile(after).ok THEN Cardinality(changed) ELSE -2]
             ELSE /\ sret' = [sret EXCEPT ![s] = Cardinality(changed)]
                  /\ UNCHANGED <<doc, savedFloor, saves>>
    /\ rerun' = NoRerun
    /\ UNCHANGED <<pidFile, alive, dying, nextPid, settingsDoc, daemonVars, clientVars,
                   fs, unreadable, readonly, unlinks, faults, sfiles, bpc, bmeta, broot,
                   btodo, edits, sweepVars>>

\* another holder of the Arc takes the mutex: Mutex::lock() returns it the
\* guard
LockTaken(s) ==
    /\ smeta[s].lock = "free"
    /\ smeta' = [smeta EXCEPT ![s].lock = "held"]
    /\ copied' = {}
    /\ flog' = NoLog
    /\ UNCHANGED <<osVars, daemonVars, clientVars, fs, bak, unreadable, readonly, unlinks,
                   glitch, faults, edits, sfiles, bpc, bmeta, broot, btodo, msgs,
                   savedFloor, saves, sret, rerun, sweepVars>>

\* that holder panics with the guard in hand: the mutex is poisoned, and every
\* later lock() returns Err(PoisonError)
HolderPanics(s) ==
    /\ smeta[s].lock = "held"
    /\ smeta' = [smeta EXCEPT ![s].lock = "poisoned"]
    /\ copied' = {}
    /\ flog' = NoLog
    /\ UNCHANGED <<osVars, daemonVars, clientVars, fs, bak, unreadable, readonly, unlinks,
                   glitch, faults, edits, sfiles, bpc, bmeta, broot, btodo, msgs,
                   savedFloor, saves, sret, rerun, sweepVars>>

\* another holder of the Arc drops its guard: the mutex is free again
LockReleased(s) ==
    /\ smeta[s].lock = "held"
    /\ smeta' = [smeta EXCEPT ![s].lock = "free"]
    /\ copied' = {}
    /\ flog' = NoLog
    /\ UNCHANGED <<osVars, daemonVars, clientVars, fs, bak, unreadable, readonly, unlinks,
                   glitch, faults, edits, sfiles, bpc, bmeta, broot, btodo, msgs,
                   savedFloor, saves, sret, rerun, sweepVars>>

\* DeleteFile with f selected: delete_selected(backup_path), the record taken
\* out of self.files, update_file_info(self.files)
DeleteFile(s, f) ==
    /\ bpc[s] = "idle"
    /\ msgs[s] < MaxMessages
    /\ msgs' = [msgs EXCEPT ![s] = @ + 1]
    /\ f \in DOMAIN sfiles[s]
    /\ bak' = [bak EXCEPT ![sfiles[s][f].backup_path] = 0]
    /\ sfiles' = [sfiles EXCEPT ![s] = Remove(@, f)]
    /\ doc' = SaveToFile(Remove(sfiles[s], f)).doc
    /\ saves' = saves + 1
    /\ savedFloor' = Records(Remove(sfiles[s], f))
    /\ rerun' = NoRerun
    /\ copied' = {}
    /\ flog' = NoLog
    /\ UNCHANGED <<pidFile, alive, dying, nextPid, settingsDoc, daemonVars, clientVars,
                   fs, unreadable, readonly, unlinks, glitch, faults, smeta, bpc, bmeta,
                   broot, btodo, edits, sret, sweepVars>>

\* RefreshFiles: self.files from the index as it is on disk now
RefreshFiles(s) ==
    /\ bpc[s] = "idle"
    /\ msgs[s] < MaxMessages
    /\ msgs' = [msgs EXCEPT ![s] = @ + 1]
    /\ LoadMetadata.ok
    /\ sfiles' = [sfiles EXCEPT ![s] = LoadMetadata.files]
    /\ copied' = {}
    /\ flog' = NoLog
    /\ UNCHANGED <<osVars, daemonVars, clientVars, fs, bak, unreadable, readonly, unlinks,
                   glitch, faults,
                   smeta, bpc, bmeta, broot, btodo, edits, savedFloor, saves, sret, rerun,
                   sweepVars>>

\* the GUI is started again: Backup::new() loads the index into
\* self.metadata (None when the load returns an error) and self.files
Reopen(s) ==
    /\ bpc[s] = "idle"
    /\ msgs[s] < MaxMessages
    /\ msgs' = [msgs EXCEPT ![s] = @ + 1]
    /\ smeta' = [smeta EXCEPT ![s] = [some |-> LoadMetadata.ok, files |-> LoadMetadata.files,
                                               lock |-> "free"]]
    /\ sfiles' = [sfiles EXCEPT ![s] = LoadMetadata.files]
    /\ sret' = [sret EXCEPT ![s] = -1]
    /\ rerun' = NoRerun
    /\ copied' = {}
    /\ flog' = NoLog
    /\ UNCHANGED <<osVars, daemonVars, clientVars, fs, bak, unreadable, readonly, unlinks,
                   glitch, faults, bpc, bmeta, broot, btodo, edits, savedFloor, saves,
                   sweepVars>>

\* the user changes the content of a source file
Edit(f) ==
    /\ edits < MaxEdits
    /\ fs[f] # 0
    /\ \E c \in Contents \ {fs[f]} : fs' = [fs EXCEPT ![f] = c]
    /\ edits' = edits + 1
    /\ rerun' = NoRerun
    /\ copied' = {}
    /\ flog' = NoLog
    /\ UNCHANGED <<msgs, osVars, daemonVars, clientVars, bak, unreadable, readonly, unlinks,
                   glitch, faults,
                   smeta, sfiles, bpc, bmeta, broot, btodo, savedFloor, saves, sret, sweepVars>>

\* an I/O fault on a source file: it can no longer be opened for reading
\* (permissions), or its next read fails and later ones succeed
Fault(f) ==
    /\ faults < MaxFaults
    /\ fs[f] # 0
    /\ f \notin unreadable /\ f \notin glitch
    /\ \/ unreadable' = unreadable \cup {f} /\ UNCHANGED glitch
       \/ glitch' = glitch \cup {f} /\ UNCHANGED unreadable
    /\ faults' = faults + 1
    /\ rerun' = NoRerun
    /\ copied' = {}
    /\ flog' = NoLog
    /\ UNCHANGED <<osVars, daemonVars, clientVars, fs, bak, readonly, unlinks, edits, smeta,
                   sfiles, bpc, bmeta, broot, btodo, msgs, savedFloor, saves, sret, sweepVars>>

\* a file under ~/Backup can no longer be written (permissions, an
\* immutable flag): fs::copy to it fails
WriteFault(b) ==
    /\ faults < MaxFaults
    /\ b \notin readonly
    /\ readonly' = readonly \cup {b}
    /\ faults' = faults + 1
    /\ rerun' = NoRerun
    /\ copied' = {}
    /\ flog' = NoLog
    /\ UNCHANGED <<osVars, daemonVars, clientVars, fs, bak, unreadable, unlinks, glitch, edits,
                   smeta, sfiles, bpc, bmeta, broot, btodo, msgs, savedFloor, saves, sret,
                   sweepVars>>

\* the user removes a source file (or unplugs the storage it is on)
Unlink(f) ==
    /\ unlinks < MaxUnlinks
    /\ fs[f] # 0
    /\ fs' = [fs EXCEPT ![f] = 0]
    /\ unreadable' = unreadable \ {f}
    /\ glitch' = glitch \ {f}
    /\ unlinks' = unlinks + 1
    /\ rerun' = NoRerun
    /\ copied' = {}
    /\ flog' = NoLog
    /\ UNCHANGED <<osVars, daemonVars, clientVars, bak, readonly, faults, edits, smeta, sfiles,
                   bpc, bmeta, broot, btodo, msgs, savedFloor, saves, sret, sweepVars>>

(***************************************************************************)
(* Specification of the index under two GUI sessions open at once.         *)
(***************************************************************************)
NextIndex ==
    \/ \E s \in Sessions, root \in Roots : BackupStart(s, root)
    \/ \E s \in Sessions : BackupVisit(s)
    \/ \E s \in Sessions : BackupSave(s)
    \/ \E s \in Sessions : BackupReload(s)
    \/ \E s \in Sessions : UpdateNow(s)
    \/ \E s \in Sessions, f \in Files : DeleteFile(s, f)
    \/ \E s \in Sessions : RefreshFiles(s)
    \/ \E f \in Files : Edit(f)

\* no daemon was ever started; the index document is not there yet, or holds
\* a record of an earlier backup
InitIndex ==
    /\ pidFile = NoPidFile
    /\ alive = {}
    /\ dying = {}
    /\ nextPid = 1
    /\ settingsDoc = [present |-> FALSE, auto_backup_enabled |-> FALSE,
                      interval_minutes |-> 0]
    /\ doc \in {AbsentDoc, KeyedDoc(OneRecord)}
    /\ InitDaemons
    /\ InitClients
    /\ InitFiles
    /\ InitSessions
    /\ InitScheduler

SpecIndex == InitIndex /\ [][NextIndex]_vars

(***************************************************************************)
(* Specification of the backup engine: one GUI session running backup()    *)
(* and backup_now() one after the other, the user editing source files     *)
(* and I/O faults striking them in between.                                *)
(***************************************************************************)
\* a flat list document, as the earlier variant of the program wrote it
LegacyDoc(list) ==
    [kind |-> "legacy", files |-> EmptyIndex,
     list |-> [i \in 1..Len(list) |-> ToJson(list[i])]]

\* the index document is not there yet, or is the flat list of an earlier
\* backup of r1/a.txt (no hash recorded, the copy made then under ~/Backup),
\* the file edited since or not
InitEngine ==
    /\ pidFile = NoPidFile
    /\ alive = {}
    /\ dying = {}
    /\ nextPid = 1
    /\ settingsDoc = [present |-> FALSE, auto_backup_enabled |-> FALSE,
                      interval_minutes |-> 0]
    /\ doc \in {AbsentDoc, LegacyDoc(<<NewFileInfo(<<"r1", "a.txt">>, NoHash)>>)}
    /\ InitDaemons
    /\ InitClients
    /\ fs \in {[f \in Files |-> IF f = <<"r1", "a.txt">> THEN c
                                 ELSE IF f = OddFile THEN 0 ELSE 1] : c \in Contents}
    /\ bak = [b \in BackupPaths |-> IF doc.kind = "legacy" /\ b = "a.txt" THEN 1 ELSE 0]
    /\ unreadable = {}
    /\ readonly = {}
    /\ unlinks = 0
    /\ glitch = {}
    /\ faults = 0
    /\ edits = 0
    /\ copied = {}
    /\ flog = NoLog
    /\ InitSessions
    /\ InitScheduler

NextEngine ==
    \/ \E root \in Roots : BackupStart(1, root)
    \/ BackupVisit(1)
    \/ BackupSave(1)
    \/ BackupReload(1)
    \/ UpdateNow(1)
    \/ \E f \in Files : Edit(f)
    \/ \E f \in Files : Fault(f)

SpecEngine == InitEngine /\ [][NextEngine]_vars

(***************************************************************************)
(* Specification of the engine over a changing tree: the same session,     *)
(* the index of an earlier backup of r1 or none, source files removed,     *)
(* backup copies that cannot be written, and a file in r2 whose name is    *)
(* not UTF-8.                                                              *)
(***************************************************************************)
\* the index an earlier backup(r1) saved
TwoRecords ==
    Insert(OneRecord, <<"r1", "notes/b">>, NewFileInfo(<<"r1", "notes/b">>, Digest(1)))

InitResync ==
    /\ pidFile = NoPidFile
    /\ alive = {}
    /\ dying = {}
    /\ nextPid = 1
    /\ settingsDoc = [present |-> FALSE, auto_backup_enabled |-> FALSE,
                      interval_minutes |-> 0]
    /\ doc \in {AbsentDoc, KeyedDoc(TwoRecords)}
    /\ InitDaemons
    /\ InitClients
    /\ fs \in {[f \in Files |-> IF f = OddFile THEN c ELSE 1] : c \in {0, 1}}
    /\ bak = [b \in BackupPaths |->
                 IF doc.kind = "keyed" /\ b \in {"a.txt", "notes/b"} THEN 1 ELSE 0]
    /\ unreadable = {}
    /\ readonly = {}
    /\ unlinks = 0
    /\ glitch = {}
    /\ faults = 0
    /\ edits = 0
    /\ copied = {}
    /\ flog = NoLog
    /\ InitSessions
    /\ InitScheduler

NextResync ==
    \/ NextEngine
    \/ \E f \in Files : Unlink(f)
    \/ \E b \in BackupPaths : WriteFault(b)

SpecResync == InitResync /\ [][NextResync]_vars

(***************************************************************************)
(* Specification of backup_now() on a mutex that goes through each state   *)
(* lock() tells apart: free, held by another holder of the Arc (who may    *)
(* drop the guard or keep it), poisoned by a holder that panicked.         *)
(***************************************************************************)
InitLock ==
    /\ pidFile = NoPidFile
    /\ alive = {}
    /\ dying = {}
    /\ nextPid = 1
    /\ settingsDoc = [present |-> FALSE, auto_backup_enabled |-> FALSE,
                      interval_minutes |-> 0]
    /\ doc = KeyedDoc(TwoRecords)
    /\ InitDaemons
    /\ InitClients
    /\ fs \in [Files -> 0..MaxContent]
    /\ bak = [b \in BackupPaths |-> IF b \in {"a.txt", "notes/b"} THEN 1 ELSE 0]
    /\ unreadable = {}
    /\ readonly = {}
    /\ unlinks = 0
    /\ glitch = {}
    /\ faults = 0
    /\ edits = 0
    /\ copied = {}
    /\ flog = NoLog
    /\ smeta = [s \in Sessions |-> [some |-> TRUE, files |-> TwoRecords, lock |-> "free"]]
    /\ sfiles = [s \in Sessions |-> TwoRecords]
    /\ bpc = [s \in Sessions |-> "idle"]
    /\ bmeta = [s \in Sessions |-> EmptyIndex]
    /\ broot = [s \in Sessions |-> "r1"]
    /\ btodo = [s \in Sessions |-> {}]
    /\ msgs = [s \in Sessions |-> 0]
    /\ savedFloor = 0
    /\ saves = 0
    /\ sret = [s \in Sessions |-> -1]
    /\ rerun = NoRerun
    /\ InitScheduler

NextLock ==
    \/ UpdateNow(1)
    \/ LockTaken(1)
    \/ LockReleased(1)
    \/ HolderPanics(1)
    \/ \E f \in Files : Edit(f)
    \/ \E f \in Files : Fault(f)
    \/ \E b \in BackupPaths : WriteFault(b)

SpecLock == InitLock /\ [][NextLock]_vars

(***************************************************************************)
(* Specification of one GUI session that deletes records and asks for      *)
(* Backup Now while the sources are edited: Backup::update over            *)
(* self.files (DeleteFile) and over self.metadata (UpdateNow).             *)
(***************************************************************************)
NextDelete ==
    \/ UpdateNow(1)
    \/ \E f \in Files : DeleteFile(1, f)
    \/ \E f \in Files : Edit(f)
    \/ \E f \in Files : Fault(f)
    \/ \E b \in BackupPaths : WriteFault(b)

SpecDelete == InitLock /\ [][NextDelete]_vars

(***************************************************************************)
(* Specification of the metadata store: the index document in every shape  *)
(* load_from_file() tells apart, one session that loads it and works on    *)
(* r1, and the flat list of the earlier variant under save_info().         *)
(***************************************************************************)
\* longest flat list the document holds
MaxList == 2

\* the records a flat list can hold of the files of r1, hashed or not
LegacyRecords ==
    {NewFileInfo(f, h) : f \in {<<"r1", "a.txt">>, <<"r1", "notes/b">>},
                         h \in {NoHash, Digest(1)}}

LegacyLists == UNION {[1..n -> LegacyRecords] : n \in 0..MaxList}

StoreDocs ==
    {AbsentDoc, MalformedDoc, UnreadableDoc, KeyedDoc(EmptyIndex), KeyedDoc(TwoRecords)}
    \cup {LegacyDoc(list) : list \in LegacyLists}

\* the records the earlier variant's backup() makes (..Default::default()),
\* and one the user has set in the GUI since
FreshInfo(f) == TestFileInfo(f, FALSE, U64(0), "")
TunedInfo == TestFileInfo(<<"r1", "a.txt">>, TRUE, U64(5), "Minute(s)")

StoreListDocs ==
    {[present |-> FALSE, list |-> <<>>],
     [present |-> TRUE, list |-> <<>>],
     [present |-> TRUE, list |-> <<TunedInfo>>],
     [present |-> TRUE, list |-> <<FreshInfo(<<"r1", "notes/b">>), TunedInfo>>]}

\* the vectors save_info() is called with
EntryLists ==
    UNION {[1..n -> {FreshInfo(f) : f \in Files \ {OddFile}}] : n \in 1..MaxList}

InitStore ==
    /\ pidFile = NoPidFile
    /\ alive = {}
    /\ dying = {}
    /\ nextPid = 1
    /\ settingsDoc = [present |-> FALSE, auto_backup_enabled |-> FALSE,
                      interval_minutes |-> 0]
    /\ doc \in StoreDocs
    /\ InitDaemons
    /\ InitClients
    /\ fs \in {[f \in Files |-> IF f = <<"r1", "a.txt">> THEN c
                                 ELSE IF f = OddFile THEN 0 ELSE 1] : c \in 0..MaxContent}
    /\ bak = [b \in BackupPaths |-> 0]
    /\ unreadable \in {{}, {<<"r1", "notes/b">>}}
    /\ readonly = {}
    /\ unlinks = 0
    /\ glitch = {}
    /\ faults = 0
    /\ edits = 0
    /\ copied = {}
    /\ flog = NoLog
    /\ InitSessions
    /\ infoDoc \in StoreListDocs
    /\ overflowChecks = FALSE
    /\ spc = [t \in Sweepers |-> "idle"]
    /\ sauto = [t \in Sweepers |-> <<>>]
    /\ sres = [t \in Sweepers |-> "none"]
    /\ lockedBy = 0
    /\ runningBackups = {}
    /\ thr = [i \in Threads |-> NoThread]
    /\ nthr = 0
    /\ sweeps = 0
    /\ toggles = 0

NextStore ==
    \/ Reopen(1)
    \/ BackupStart(1, "r1")
    \/ BackupVisit(1)
    \/ BackupSave(1)
    \/ BackupReload(1)
    \/ UpdateNow(1)
    \/ \E f \in Files : DeleteFile(1, f)
    \/ \E info \in EntryLists : SaveInfoCall(info)

SpecStore == InitStore /\ [][NextStore]_vars

(***************************************************************************)
(* Specification of the per-file scheduler: one process in which two       *)
(* callers run auto_backup(), the threads they spawn, and the user         *)
(* toggling a file's auto-backup and editing source files meanwhile.       *)
(***************************************************************************)
\* the flat list an earlier backup() wrote, the first record as the user set
\* it in the GUI; or no metadata file at all
SweepDocs ==
    {[present |-> FALSE, list |-> <<>>]}
    \cup {[present |-> TRUE,
           list |-> <<TestFileInfo(<<"r1", "a.txt">>, auto, time, frequency),
                      TestFileInfo(<<"r1", "notes/b">>, TRUE, U64(5), "Minute(s)")>>] :
             auto \in BOOLEAN, time \in Times, frequency \in Frequencies}

InitSweep ==
    /\ pidFile = NoPidFile
    /\ alive = {}
    /\ dying = {}
    /\ nextPid = 1
    /\ settingsDoc = [present |-> FALSE, auto_backup_enabled |-> FALSE,
                      interval_minutes |-> 0]
    /\ doc = AbsentDoc
    /\ InitDaemons
    /\ InitClients
    /\ fs \in {[f \in Files |-> IF f = <<"r1", "notes/b">> THEN c
                                 ELSE IF f = OddFile THEN 0 ELSE 1] : c \in {0, 1}}
    /\ bak = [b \in BackupPaths |-> 0]
    /\ unreadable = {}
    /\ readonly = {}
    /\ unlinks = 0
    /\ glitch = {}
    /\ faults = 0
    /\ edits = 0
    /\ copied = {}
    /\ flog = NoLog
    /\ InitSessions
    /\ infoDoc \in SweepDocs
    /\ overflowChecks \in BOOLEAN
    /\ spc = [t \in Sweepers |-> "idle"]
    /\ sauto = [t \in Sweepers |-> <<>>]
    /\ sres = [t \in Sweepers |-> "none"]
    /\ lockedBy = 0
    /\ runningBackups = {}
    /\ thr = [i \in Threads |-> NoThread]
    /\ nthr = 0
    /\ sweeps = 0
    /\ toggles = 0

NextSweep ==
    \/ \E t \in Sweepers : SweepLoad(t)
    \/ \E t \in Sweepers : SweepLock(t)
    \/ \E t \in Sweepers : SweepVisit(t)
    \/ \E t \in Sweepers : SweepReturn(t)
    \/ \E i \in Threads : ThreadStart(i)
    \/ \E i \in Threads : ThreadIteration(i)
    \/ \E k \in 1..2 : ToggleAuto(k)
    \/ Edit(<<"r1", "a.txt">>)

SpecSweep == InitSweep /\ [][NextSweep]_vars

(***************************************************************************)
(* Properties of the daemon verbs.                                         *)
(***************************************************************************)
StopPcs ==
    {"stop_check", "stop_purge", "stop_term", "stop_poll", "stop_escalate",
     "stop_unlink", "stop_verify"}

\* caller c takes a step of its verb
Steps(c) == cpc'[c] # cpc[c] \/ polls'[c] # polls[c]

\* the step sends no signal to anyone
NoSignalSent(c) ==
    /\ opSig'[c] = opSig[c]
    /\ dying' = dying
    /\ running' = running
    /\ sigSeen' = sigSeen

\* the step creates no process
NoProcessCreated == nextPid' = nextPid /\ alive' \subseteq alive

\* C1: once the daemon has taken SIGINT or SIGTERM in its handler, the global
\* loop eventually leaves on its own and the daemon removes its PID file.
C1_SignalEndsTheLoop ==
    \A p \in PIDs : sigSeen[p] ~> (dpc[p] = "exited" /\ ~pidFile.present)

\* C2: whatever the interleaving of concurrent start() calls, there are never
\* two live daemon processes, and a PID file that names a live daemon is
\* neither removed nor overwritten.
C2_StartIsMutuallyExclusive ==
    [][/\ Cardinality(alive') <= 1
       /\ (pidFile.present /\ ParsePid(pidFile.text) \in alive) => pidFile' = pidFile]_vars

\* every iteration of the loop reloads the settings, sweeps iff they enable
\* auto-backup, and sleeps no more seconds than interval_minutes * 60, each
\* of them only after reading the flag true
LoopIterationShape ==
    [][\A p \in PIDs :
          /\ (dpc[p] = "loop" /\ dpc'[p] = "sleep")
             => /\ dset'[p] = LoadSettings
                /\ swept'[p] = LoadSettings.auto_backup_enabled
                /\ ticks'[p] = 0
          /\ ticks'[p] <= SleepSeconds(dset'[p])
          /\ ticks'[p] = ticks[p] + 1 => running[p]]_vars

\* C9: every iteration of the loop reloads the settings, sweeps iff they
\* enable auto-backup, sleeps at most interval_minutes * 60 one-second ticks,
\* and no more than one tick elapses once a signal has requested shutdown.
C9_LoopIterationPromptShutdown ==
    [][\A p \in PIDs :
          /\ (dpc[p] = "loop" /\ dpc'[p] = "sleep")
             => /\ dset'[p] = LoadSettings
                /\ swept'[p] = LoadSettings.auto_backup_enabled
          /\ ticks'[p] <= SleepSeconds(dset'[p])
          /\ lateTicks'[p] <= 1]_vars

\* C3: start() called while is_running() is true returns the "already running"
\* error in that very step: no signal is sent, the PID file is neither removed
\* nor rewritten, and no process is created.
C3_StartOnRunningDaemon ==
    [][\A c \in Clients :
          (cpc[c] = "start_check" /\ Steps(c) /\ pidFile.present
              /\ ParsePid(pidFile.text) \in alive)
          => /\ cpc'[c] = "idle"
             /\ cres'[c] = "already_running"
             /\ NoSignalSent(c)
             /\ pidFile' = pidFile
             /\ NoProcessCreated]_vars

\* start() has just refused to start over a live daemon named by the PID file
C3_Witness ==
    \E c \in Clients :
        /\ cop[c] = "start" /\ cpc[c] = "idle" /\ cres[c] = "already_running"
        /\ pidFile.present /\ ParsePid(pidFile.text) \in alive
        /\ dpc[ParsePid(pidFile.text)] = "loop"

\* stop() sends SIGKILL only to the process it sent SIGTERM to, and only after
\* StopPolls polls in a row found is_running() true
StopSignalOrder ==
    [][\A c \in Clients : \A p \in PIDs :
          (cpc[c] \in StopPcs /\ <<"SIGKILL", p>> \in opSig'[c] \ opSig[c])
          => /\ <<"SIGTERM", p>> \in opSig[c]
             /\ polls[c] = StopPolls
             /\ pidFile.present /\ ParsePid(pidFile.text) \in alive]_vars

\* the process stop() sent SIGTERM to took it in its handler and is still there
IgnoresSigterm(c) ==
    /\ cpid[c] \in alive /\ cpid[c] \notin dying
    /\ sigSeen[cpid[c]]

\* C4: stop() sends SIGTERM first and SIGKILL only after StopPolls polls in a
\* row found the process alive; and a daemon that ignores SIGTERM has been sent
\* SIGKILL by the time stop() returns.
C4_GracefulThenForced ==
    [][\A c \in Clients :
          /\ \A p \in PIDs :
                (cpc[c] \in StopPcs /\ <<"SIGKILL", p>> \in opSig'[c] \ opSig[c])
                => /\ <<"SIGTERM", p>> \in opSig[c]
                   /\ polls[c] = StopPolls
          /\ (/\ cpc[c] \in {"stop_poll", "stop_escalate", "stop_verify"}
              /\ cpc'[c] \notin StopPcs
              /\ IgnoresSigterm(c))
             => <<"SIGKILL", cpid[c]>> \in opSig'[c]]_vars

\* a daemon that took SIGTERM in its handler and lived through the whole wait
\* has been sent SIGKILL
StopEscalated ==
    \E c \in Clients :
        /\ cpc[c] = "stop_unlink" /\ polls[c] = StopPolls
        /\ sigSeen[cpid[c]]
        /\ opSig[c] = {<<"SIGTERM", cpid[c]>>, <<"SIGKILL", cpid[c]>>}

\* C5: stop() returns success only when the daemon process is gone: when the
\* process is still there after SIGKILL and the brief wait, stop() returns the
\* failure "could not be terminated".
C5_StopVerifiesTheKill ==
    [][\A c \in Clients :
          (cpc[c] = "stop_verify" /\ Steps(c) /\ cpid[c] \in alive)
          => cres'[c] = "kill_failed"]_vars

\* C6: stop() with no live daemon (no PID file, an unparsable one, or one naming
\* a process that does not exist) sends no signal, returns "not running", and
\* leaves no PID file behind.
C6_StopWhenNotRunning ==
    [][\A c \in Clients :
          /\ (/\ cpc[c] = "stop_check" /\ Steps(c)
              /\ ~(pidFile.present /\ ParsePid(pidFile.text) \in alive))
             => /\ cpc'[c] = "stop_purge"
                /\ NoSignalSent(c)
          /\ (cpc[c] = "stop_purge" /\ Steps(c))
             => /\ cop[c] = "stop" => (cpc'[c] = "idle" /\ cres'[c] = "not_running")
                /\ NoSignalSent(c)
                /\ opSig[c] = {}
                /\ ~pidFile'.present]_vars

\* stop() has answered "not running" over a PID file whose text is no PID
C6_Witness ==
    \E c \in Clients :
        /\ cop[c] = "stop" /\ cpc[c] = "idle" /\ cres[c] = "not_running"
        /\ ~pidFile.present
        /\ \E p \in PIDs : dpc[p] = "pid_created" /\ fdIno[p] # 0

\* C7: is_running() over a PID file naming a process that does not exist
\* returns false and the file is gone afterwards; over a PID file naming a live
\* process it returns true and leaves the file as it was.
C7_IsRunningSelfHeals ==
    [][\A c \in Clients :
          (cpc[c] = "is_running_read" /\ Steps(c) /\ pidFile.present
              /\ ParsePid(pidFile.text) # 0)
          => IF ParsePid(pidFile.text) \in alive
             THEN cres'[c] = "true" /\ pidFile' = pidFile
             ELSE cres'[c] = "false" /\ ~pidFile'.present]_vars

\* is_running() read the PID of a process that is gone, answered false, and
\* the stale file is no more
C7_Witness ==
    \E c \in Clients :
        /\ cop[c] = "is_running" /\ cpc[c] = "idle" /\ cres[c] = "false"
        /\ cpid[c] # 0 /\ cpid[c] \notin alive
        /\ ~pidFile.present

\* auto_backup_enabled is false in the settings, or they cannot be loaded
AutoBackupOff == ~settingsDoc.present \/ ~settingsDoc.auto_backup_enabled

\* the index document yields no record
IndexEmpty ==
    \/ doc.kind \in {"absent", "malformed"}
    \/ doc.kind = "keyed" /\ DOMAIN doc.files = {}
    \/ doc.kind = "legacy" /\ doc.list = <<>>

\* C8: start() with auto-backup off in the settings (or settings that cannot be
\* loaded), or with an index without records, returns an error naming the
\* reason; up to there it creates no process and writes no PID file.
C8_StartPreconditions ==
    [][\A c \in Clients :
          /\ (cpc[c] \in {"start_check", "start_purge", "start_validate"} /\ Steps(c))
             => /\ NoProcessCreated
                /\ pidFile' = pidFile \/ ~pidFile'.present
          /\ (cpc[c] = "start_validate" /\ Steps(c) /\ (AutoBackupOff \/ IndexEmpty))
             => /\ cpc'[c] = "idle"
                /\ cres'[c] = IF AutoBackupOff THEN "disabled" ELSE "no_files"]_vars

\* start() has refused to start because the index holds no record
C8_Witness ==
    \E c \in Clients :
        /\ cop[c] = "start" /\ cpc[c] = "idle" /\ cres[c] = "no_files"
        /\ ~AutoBackupOff /\ IndexEmpty
        /\ nextPid = 1 /\ ~pidFile.present

(***************************************************************************)
(* Properties of the index.                                                *)
(***************************************************************************)
\* C10: whatever the interleaving of the sessions' mutate-and-save
\* sequences, the persisted index never holds fewer records than a completed
\* save wrote (since the last deliberate deletion).
C10_NoLostRecords == Records(LoadMetadata.files) >= savedFloor

(***************************************************************************)
(* Properties of the per-file scheduler.                                   *)
(***************************************************************************)
\* the threads ever spawned for the path f
LoopsOf(f) == {i \in Threads : thr[i].pc # "none" /\ thr[i].info.original_path = f}

\* the step by which caller t handles the first record of its auto_files
Visits(t) == spc[t] = "visit" /\ sauto[t] # <<>> /\ sauto'[t] = Tail(sauto[t])

\* C11: a sweep takes the records of the loaded index that have auto-backup
\* enabled; visiting one, it spawns the record's loop if and only if the
\* record's original_path is not in the active set; no loop is spawned any
\* other way, and no original_path ever has more than one loop, however the
\* sweeps of the two callers interleave.
C11_OneLoopPerPath ==
    [][/\ \A t \in Sweepers :
            /\ (spc[t] = "idle" /\ spc'[t] = "lock") => sauto'[t] = AutoFiles(infoDoc.list)
            /\ Visits(t) =>
                  ((/\ Head(sauto[t]).auto_backup
                    /\ Head(sauto[t]).original_path \notin runningBackups)
                   <=> (/\ nthr' = nthr + 1
                        /\ thr'[nthr'].pc = "spawned"
                        /\ thr'[nthr'].info = Head(sauto[t])))
       /\ nthr' # nthr => \E t \in Sweepers : lockedBy = t /\ Visits(t)
       /\ \A f \in Files : Cardinality(LoopsOf(f)') <= 1]_vars

\* both callers have swept an index whose two records were enabled all along,
\* and each path has the one loop the first visit gave it
C11_Witness ==
    /\ sweeps = 2 /\ sres[1] = "ok" /\ sres[2] = "ok"
    /\ toggles = 0
    /\ infoDoc.present /\ \A k \in 1..Len(infoDoc.list) : infoDoc.list[k].auto_backup
    /\ nthr = 2
    /\ \A f \in {<<"r1", "a.txt">>, <<"r1", "notes/b">>} :
          f \in runningBackups /\ Cardinality(LoopsOf(f)) = 1

\* C12: a turn of a per-file loop copies the file if and only if backup_now
\* would: the file can be read and its digest differs from the one recorded at
\* the loop's last copy (or none was recorded); an unchanged file is not copied.
C12_LoopCopiesOnlyChanges ==
    [][\A i \in Threads :
          thr'[i].runs = thr[i].runs + 1 =>
             (thr[i].info.original_path \in copied'
              <=> /\ CopyWorks(thr[i].info.original_path)
                  /\ \/ thr[i].lhash = NoHash
                     \/ Digest(fs[thr[i].info.original_path]) # thr[i].lhash)]_vars

\* C13: the active set only grows, and a thread that has entered its loop
\* stays in it, whatever happens to the record's auto_backup flag or to the
\* copy of a turn.
C13_LoopsAndActiveSetPersist ==
    [][/\ runningBackups \subseteq runningBackups'
       /\ \A i \in Threads : thr[i].pc = "sleep" => thr'[i].pc = "sleep"]_vars

\* the user has disabled auto-backup of a.txt, whose loop has taken all its
\* turns and is still there, the path still in the active set
C13_Witness ==
    /\ toggles = 1
    /\ infoDoc.present /\ ~infoDoc.list[1].auto_backup
    /\ <<"r1", "a.txt">> \in runningBackups
    /\ \E i \in Threads :
          /\ thr[i].info.original_path = <<"r1", "a.txt">>
          /\ thr[i].pc = "sleep" /\ thr[i].runs = MaxRuns

\* the period a record's interval and unit stand for, in the arithmetic of
\* the naturals (six limbs: no product of a u64 by 86400 needs more)
ExactPeriod(info) ==
    IF Factors(info.backup_frequency) = <<>>
    THEN U64(DefaultPeriod) \o <<0, 0>>
    ELSE MulChain(info.backup_time \o <<0, 0>>, Factors(info.backup_frequency)).val

\* C14: every spawned thread reaches its loop, and the period it sleeps is the
\* record's interval times 60, 3600 or 86400 for minutes, hours or days, and
\* 3600 s for any other unit.
C14_ReCheckPeriod ==
    \A i \in Threads :
        thr[i].pc \notin {"none", "spawned"} =>
            /\ thr[i].pc = "sleep"
            /\ thr[i].interval \o <<0, 0>> = ExactPeriod(thr[i].info)

\* the same for the records whose product fits a u64
PeriodWhenInRange ==
    \A i \in Threads :
        (/\ thr[i].pc \notin {"none", "spawned"}
         /\ ~ConvertTime(thr[i].info, thr[i].info.backup_frequency).overflow) =>
            /\ thr[i].pc = "sleep"
            /\ thr[i].interval \o <<0, 0>> = ExactPeriod(thr[i].info)

\* a thread whose record has a unit convert_time does not know sleeps the
\* default period
DefaultPeriodUsed ==
    \E i \in Threads :
        /\ thr[i].pc = "sleep" /\ thr[i].info.backup_frequency = ""
        /\ thr[i].interval = U64(DefaultPeriod)

(***************************************************************************)
(* Properties of the backup engine.                                        *)
(***************************************************************************)
\* C15: while backup(root) runs a second time in a row, nothing having
\* changed since the first run began, no step of the walk copies a file, and
\* the index the run saves has the records the first run left.
C15_SecondSyncCopiesNothing ==
    [][\A s \in Sessions :
          (bpc[s] = "walk" /\ rerun.by = s /\ rerun.phase = "again") =>
              /\ copied' = {}
              /\ LoadMetadata'.files = LoadMetadata.files]_vars

\* the tracked files of session s whose content is not the one its record's hash is of
Differing(s) ==
    {k \in DOMAIN smeta[s].files :
        fs[k] # 0 /\ Digest(fs[k]) # smeta[s].files[k].hash}

\* C16: when exactly one tracked file differs from its record's hash (and can
\* be read), backup_now copies that file and no other, sets that record's hash
\* to the file's digest, changes no other record and no other backup copy,
\* saves that index and returns 1.
C16_ResyncTouchesOnlyTheChangedFile ==
    [][\A s \in Sessions : \A k \in Files :
          (/\ UpdateNow(s)
           /\ Differing(s) = {k}
           /\ k \notin unreadable /\ k \notin glitch) =>
              /\ copied' = {k}
              /\ bak' = [bak EXCEPT ![smeta[s].files[k].backup_path] = fs[k]]
              /\ smeta'[s].files = [smeta[s].files EXCEPT ![k].hash = Digest(fs[k])]
              /\ doc' = KeyedDoc(smeta'[s].files)
              /\ sret'[s] = 1]_vars

\* backup_now has just returned 1 for an index of two records, having copied
\* the edited r1/a.txt only
C16_Witness ==
    /\ sret[1] = 1 /\ copied = {<<"r1", "a.txt">>}
    /\ edits = 1 /\ faults = 0
    /\ DOMAIN smeta[1].files = {<<"r1", "a.txt">>, <<"r1", "notes/b">>}
    /\ bak["a.txt"] = fs[<<"r1", "a.txt">>]
    /\ smeta[1].files[<<"r1", "a.txt">>].hash = Digest(fs[<<"r1", "a.txt">>])

\* C17: between operations, a record of the persisted index with a non-empty
\* hash has a backup copy, and the hash is the digest of that copy's content
\* (records that share their backup_path with another record set aside).
C17_HashIsOfBackedUpContent ==
    (doc.kind = "keyed" /\ \A s \in Sessions : bpc[s] = "idle") =>
        \A k \in DOMAIN LoadMetadata.files :
            (/\ LoadMetadata.files[k].hash # NoHash
             /\ \A j \in DOMAIN LoadMetadata.files \ {k} :
                    LoadMetadata.files[j].backup_path # LoadMetadata.files[k].backup_path) =>
                /\ bak[LoadMetadata.files[k].backup_path] # 0
                /\ LoadMetadata.files[k].hash
                       = Digest(bak[LoadMetadata.files[k].backup_path])

\* the three cases in which the initial sync is to copy the file f
MustCopy(meta, f) ==
    \/ f \notin DOMAIN meta
    \/ meta[f].hash = NoHash
    \/ ~CalculateHash(f).some
    \/ CalculateHash(f).hash # meta[f].hash

\* C18: the step of the walk that handles the file f copies it to its
\* destination if and only if f has no record, or its record's hash is empty,
\* or its hash cannot be computed or differs from the record's; the walk is
\* left with an error only where such a copy was due and failed.
C18_InitialSyncCopyRule ==
    [][\A s \in Sessions :
          /\ \A f \in Files :
                (/\ bpc[s] = "walk" /\ bpc'[s] = "walk"
                 /\ f \in btodo[s] /\ btodo'[s] = btodo[s] \ {f}) =>
                    /\ f \in copied' <=> MustCopy(bmeta[s], f)
                    /\ f \in copied' => bak'[DestPath(f)] = fs[f]
                    /\ f \notin copied' => bak' = bak
          /\ (bpc[s] = "walk" /\ bpc'[s] = "idle") =>
                \E f \in btodo[s] : MustCopy(bmeta[s], f) /\ f \in unreadable]_vars

\* the walk has just copied a file whose hash could not be computed (its
\* read failed once): the copy is there, no record was made
C18_Witness ==
    /\ bpc[1] = "walk" /\ faults = 1 /\ unreadable = {}
    /\ \E f \in Files :
          /\ copied = {f} /\ glitch = {} /\ f \notin btodo[1]
          /\ f \notin DOMAIN bmeta[1]
          /\ bak[DestPath(f)] = fs[f]

\* C19: backup() leaves its walk only by saving the index it has built; a
\* copy that fails does not end it.
C19_CopyFailureDoesNotAbort ==
    [][\A s \in Sessions :
          (bpc[s] = "walk" /\ bpc'[s] # "walk") =>
              /\ bpc'[s] = "reload"
              /\ doc' = KeyedDoc(bmeta[s])]_vars

\* C20: backup_now copies every tracked file that exists and whose hash
\* cannot be computed, provided the copy itself can be made.
C20_UnhashedFileIsCopied ==
    [][\A s \in Sessions :
          UpdateNow(s) =>
              \A k \in DOMAIN smeta[s].files :
                  (fs[k] # 0 /\ ~CalculateHash(k).some /\ k \notin unreadable)
                      => k \in copied']_vars

\* backup_now goes on to the other records after one whose hash failed
ResyncGoesOnAfterHashFailure ==
    [][\A s \in Sessions :
          UpdateNow(s) =>
              \A k \in DOMAIN smeta[s].files :
                  NeedsBackup(smeta[s].files[k]) => k \in copied']_vars

(***************************************************************************)
(* Properties of the engine over a changing tree.                          *)
(***************************************************************************)
\* the records of session s whose original file does not exist
Missing(s) == {k \in DOMAIN smeta[s].files : fs[k] = 0}

\* C21: backup_now leaves the index with the keys it had; a record whose
\* original file does not exist keeps its fields, the file is neither hashed
\* nor copied, and its backup copy is left as it was (unless the record shares
\* its backup_path with a record that was copied).
C21_ResyncKeepsTheRecords ==
    [][\A s \in Sessions :
          UpdateNow(s) =>
              /\ DOMAIN smeta'[s].files = DOMAIN smeta[s].files
              /\ doc' # doc => LoadMetadata'.files = smeta'[s].files
              /\ \A k \in Missing(s) :
                     /\ smeta'[s].files[k] = smeta[s].files[k]
                     /\ k \notin copied'
                     /\ flog'[k] = <<>>
                     /\ (\A j \in copied' :
                            smeta[s].files[j].backup_path # smeta[s].files[k].backup_path)
                        => bak'[smeta[s].files[k].backup_path]
                              = bak[smeta[s].files[k].backup_path]]_vars

\* backup_now has just copied one file and passed over the record of
\* another whose original the user had removed: the record and its backup
\* copy are still there
C21_Witness ==
    /\ bpc[1] = "idle" /\ sret[1] = 1 /\ Cardinality(copied) = 1
    /\ unlinks = 1
    /\ \E k \in Missing(1) :
          /\ flog[k] = <<>>
          /\ smeta[1].files[k].hash = Digest(1)
          /\ bak[smeta[1].files[k].backup_path] = 1
          /\ k \in DOMAIN LoadMetadata.files

\* the events of a log
Events(log) == {log[i] : i \in DOMAIN log}

\* C22: backup_now returns the number of files whose copy was made (a file
\* whose copy failed is not counted); it writes the index document once,
\* with the index it leaves in memory, if that number is greater than zero,
\* and does not write it at all if the number is zero.
C22_ResyncCountsAndSavesOnce ==
    [][\A s \in Sessions :
          UpdateNow(s) =>
              /\ copied' = {k \in Files : "copy" \in Events(flog'[k])}
              /\ \A k \in copied' : \E j \in copied' :
                     /\ smeta[s].files[j].backup_path = smeta[s].files[k].backup_path
                     /\ bak'[smeta[s].files[k].backup_path] = fs[j]
              /\ sret'[s] = Cardinality(copied')
              /\ IF sret'[s] > 0
                 THEN saves' = saves + 1 /\ doc' = KeyedDoc(smeta'[s].files)
                 ELSE saves' = saves /\ doc' = doc]_vars

\* backup_now has just returned 0: the one file that had changed could not
\* be copied, and the document was not written
C22_Witness ==
    /\ bpc[1] = "idle" /\ sret[1] = 0 /\ copied = {}
    /\ saves = 0 /\ doc = KeyedDoc(TwoRecords)
    /\ \E k \in DOMAIN smeta[1].files :
          /\ flog[k] = <<"hash", "copy_failed">>
          /\ smeta[1].files[k].hash # Digest(fs[k])

\* session s takes a step of backup(): it enters, walks or saves
InBackup(s) == (bpc[s] = "idle" /\ bpc'[s] = "walk") \/ bpc[s] = "walk"

\* C23: no step of backup(root) takes a record out of the persisted index,
\* whether the record's file is under root or not and whether the file still
\* exists or not, and no step removes a file under ~/Backup.
C23_BackupNeverPrunes ==
    [][\A s \in Sessions :
          InBackup(s) =>
              /\ DOMAIN LoadMetadata.files \subseteq DOMAIN LoadMetadata'.files
              /\ \A b \in BackupPaths : bak[b] # 0 => bak'[b] # 0]_vars

\* the same, for the runs whose save writes the whole document
NoPruningWhenSaved ==
    [][\A s \in Sessions :
          (InBackup(s) /\ Serializable(bmeta[s])) =>
              /\ DOMAIN LoadMetadata.files \subseteq DOMAIN LoadMetadata'.files
              /\ \A b \in BackupPaths : bak[b] # 0 => bak'[b] # 0]_vars

\* the step by which the walk of session s handles the file f
VisitsFile(s, f) ==
    /\ bpc[s] = "walk" /\ bpc'[s] = "walk"
    /\ f \in btodo[s] /\ btodo'[s] = btodo[s] \ {f}
    /\ fs[f] # 0

\* C24: the step of the walk that handles the file f puts the record of f,
\* with the new hash, in the index if the hash was computed; if it was not,
\* the file is copied and the index is left as it was: no record is made, and
\* a record f already had keeps its hash.  No other record is touched.
C24_RecordOnlyWithHash ==
    [][\A s \in Sessions : \A f \in Files :
          VisitsFile(s, f) =>
              IF CalculateHash(f).some
              THEN bmeta'[s] = Insert(bmeta[s], f, NewFileInfo(f, Digest(fs[f])))
              ELSE bmeta'[s] = bmeta[s] /\ f \in copied']_vars

\* the walk has just copied an edited file whose hash could not be computed:
\* the copy has the new content and the record still has the old hash
C24_Witness ==
    /\ bpc[1] = "walk" /\ edits = 1 /\ faults = 1
    /\ \E f \in DOMAIN bmeta[1] :
          /\ copied = {f} /\ flog[f] = <<"hash_failed", "copy">>
          /\ bak[DestPath(f)] = fs[f]
          /\ bmeta[1][f].hash = Digest(1) /\ fs[f] # 1

\* the place of an event in the handling of one file
Rank(e) ==
    CASE e \in {"hash", "hash_failed"} -> 1
      [] e \in {"copy", "copy_failed"} -> 2
      [] OTHER -> 3

\* the log of one file: hash first, then the copy if any, then the record
\* update if any, and no record update after a copy that failed
InOrder(log) ==
    /\ \A i, j \in DOMAIN log : i < j => Rank(log[i]) < Rank(log[j])
    /\ log # <<>> => Rank(log[1]) = 1
    /\ "copy_failed" \in Events(log) => "record" \notin Events(log)

\* the hash the index `files` records for k; none when it has no record of k
HashOf(files, k) == IF k \in DOMAIN files THEN files[k].hash ELSE NoHash

\* C25: whatever backup() or backup_now() does with a file is done in the
\* order hash, copy, record update: no copy without the hash having been
\* asked for first, no record update after a failed copy; and the hash a
\* record holds changes only in a step that has made the copy of the file.
C25_HashCopyRecordOrder ==
    [][/\ \A f \in Files : InOrder(flog'[f])
       /\ \A s \in Sessions : \A k \in Files :
             /\ (UpdateNow(s) /\ HashOf(smeta'[s].files, k) # HashOf(smeta[s].files, k))
                => /\ k \in copied'
                   /\ flog'[k] = <<"hash", "copy", "record">>
                   /\ bak'[smeta[s].files[k].backup_path] # 0
             /\ (VisitsFile(s, k) /\ HashOf(bmeta'[s], k) # HashOf(bmeta[s], k))
                => /\ k \in copied'
                   /\ flog'[k] = <<"hash", "copy", "record">>
                   /\ bak'[DestPath(k)] = fs[k]]_vars

\* backup_now has just gone through two records: one file had changed and
\* was hashed, copied and recorded, the other was hashed and left alone
C25_Witness ==
    /\ bpc[1] = "idle" /\ sret[1] = 1
    /\ \E k, j \in DOMAIN smeta[1].files :
          /\ flog[k] = <<"hash", "copy", "record">>
          /\ smeta[1].files[k].hash = Digest(fs[k])
          /\ bak[smeta[1].files[k].backup_path] = fs[k]
          /\ flog[j] = <<"hash">>


(***************************************************************************)
(* Properties of the metadata store                                        *)
(***************************************************************************)
\* every entry of the index is filed under the original_path of its record
KeyedByPath(files) == \A k \in DOMAIN files : files[k].original_path = k

\* the original_path values of a flat list
PathsOf(list) == {list[i].original_path : i \in DOMAIN list}

\* no two records of the flat list have one original_path
NoSharedPath(list) ==
    \A i, j \in DOMAIN list : list[i].original_path = list[j].original_path => i = j

\* C26: in every index the program holds or has written (the document as
\* it loads, the index of a session, the list the GUI shows, the index a
\* running backup() works on), each entry's key is its record's
\* original_path; and a step of save_info() on the flat list leaves every
\* record that was there in its place, unchanged, and appends no record
\* whose original_path the list already held - neither one that was there
\* before the call nor one the same call appended
C26_KeysArePaths ==
    /\ [](/\ KeyedByPath(LoadMetadata.files)
          /\ \A s \in Sessions :
               /\ KeyedByPath(smeta[s].files)
               /\ KeyedByPath(sfiles[s])
               /\ KeyedByPath(bmeta[s]))
    /\ [][infoDoc' # infoDoc =>
            /\ Len(LoadFileInfo') >= Len(LoadFileInfo)
            /\ SubSeq(LoadFileInfo', 1, Len(LoadFileInfo)) = LoadFileInfo
            /\ \A i \in (Len(LoadFileInfo) + 1)..Len(LoadFileInfo') :
                 /\ LoadFileInfo'[i].original_path \notin PathsOf(LoadFileInfo)
                 /\ \A j \in (Len(LoadFileInfo) + 1)..Len(LoadFileInfo') :
                      LoadFileInfo'[j].original_path = LoadFileInfo'[i].original_path
                          => i = j]_vars

\* the index came from a flat list that named one file twice and holds a
\* record, and the flat list of the earlier variant has grown by save_info()
\* around a record the user had set, which is still the one that was there
C26_Witness ==
    /\ doc.kind = "legacy"
    /\ Len(doc.list) = 2
    /\ doc.list[1].original_path = doc.list[2].original_path
    /\ Cardinality(DOMAIN smeta[1].files) = 1
    /\ infoDoc.present
    /\ Len(infoDoc.list) = 3
    /\ infoDoc.list[1] = TunedInfo
    /\ NoSharedPath(infoDoc.list)

\* a document that is there and is no index: text that parses as neither
\* shape, or bytes that are no text at all (not UTF-8) and cannot be read
\* into a String
Malformed(d) == d.kind \in {"malformed", "unreadable"}

\* C27: a load finding no document, or a malformed one, returns Ok with an
\* empty index: a session started on such a document holds Some(metadata)
\* with no record
C27_LoadFallsBackToEmpty ==
    [][\A s \in Sessions :
          Reopen(s) /\ (doc.kind = "absent" \/ Malformed(doc))
              => smeta'[s].some /\ smeta'[s].files = EmptyIndex]_vars

\* the part of C27 the code keeps: no document, or a text that is no JSON
\* of either shape, loads as the empty index
LoadOfAbsentOrBrokenText ==
    [][\A s \in Sessions :
          Reopen(s) /\ doc.kind \in {"absent", "malformed"}
              => smeta'[s].some /\ smeta'[s].files = EmptyIndex /\ sfiles'[s] = EmptyIndex]_vars

\* the records of the flat list a legacy document holds
ListOf(d) == [i \in DOMAIN d.list |-> FromJson(d.list[i])]

\* the last record of the list with the path k
LastOf(list, k) ==
    list[CHOOSE i \in DOMAIN list :
            /\ list[i].original_path = k
            /\ \A j \in DOMAIN list : list[j].original_path = k => j <= i]

\* the original file can be opened and read
Readable(f) == fs[f] # 0 /\ f \notin unreadable /\ f \notin glitch

\* C28: a session started on a legacy flat list holds a keyed index with one
\* entry for each original_path the list names and no other, each filed
\* under the original_path of its record; the record is the one of the list
\* (the last one, when the list names the path more than once) with its
\* paths and type as they were; a hash that was empty is the hash of the
\* original file when the file is readable and is still empty otherwise, and
\* a hash that was not empty is kept
C28_LegacyListBecomesKeyed ==
    [][\A s \in Sessions :
          Reopen(s) /\ doc.kind = "legacy" =>
              LET list == ListOf(doc)
                  files == smeta'[s].files
              IN /\ smeta'[s].some
                 /\ DOMAIN files = PathsOf(list)
                 /\ sfiles'[s] = files
                 /\ \A k \in DOMAIN files :
                      LET was == LastOf(list, k)
                      IN /\ files[k].original_path = k
                         /\ files[k].backup_path = was.backup_path
                         /\ files[k].file_type = was.file_type
                         /\ files[k].hash =
                              IF was.hash # NoHash THEN was.hash
                              ELSE IF Readable(k) THEN Digest(fs[k])
                              ELSE NoHash]_vars

\* a session was started on a flat list of two files recorded without a
\* hash: the record of the readable one has the hash of the file, the record
\* of the one that cannot be read has none
C28_Witness ==
    /\ doc.kind = "legacy"
    /\ msgs[1] > 0
    /\ \A i \in DOMAIN doc.list : doc.list[i].hash = NoHash
    /\ DOMAIN smeta[1].files = {<<"r1", "a.txt">>, <<"r1", "notes/b">>}
    /\ fs[<<"r1", "a.txt">>] = 2
    /\ smeta[1].files[<<"r1", "a.txt">>].hash = Digest(2)
    /\ <<"r1", "notes/b">> \in unreadable
    /\ smeta[1].files[<<"r1", "notes/b">>].hash = NoHash

\* C29: after a step that saved an index (the end of a backup(), a resync
\* that copied a file, a delete), a load of the document returns Ok with a
\* mapping equal to the one saved: the same keys, and under each key a
\* record with the same fields
C29_SaveThenLoad ==
    [][\A s \in Sessions :
          /\ BackupSave(s) => LoadMetadata' = [ok |-> TRUE, files |-> bmeta[s]]
          /\ UpdateNow(s) /\ saves' # saves
                => LoadMetadata' = [ok |-> TRUE, files |-> smeta'[s].files]
          /\ (\E f \in Files : DeleteFile(s, f))
                => LoadMetadata' = [ok |-> TRUE, files |-> sfiles'[s]]]_vars

\* the part of C29 the code keeps: an index whose paths are all UTF-8 text
\* is loaded as it was saved
RoundTripOfTextPaths ==
    [][\A s \in Sessions :
          /\ BackupSave(s) /\ Serializable(bmeta[s])
                => LoadMetadata' = [ok |-> TRUE, files |-> bmeta[s]]
          /\ UpdateNow(s) /\ saves' # saves /\ Serializable(smeta'[s].files)
                => LoadMetadata' = [ok |-> TRUE, files |-> smeta'[s].files]
          /\ (\E f \in Files : DeleteFile(s, f)) /\ Serializable(sfiles'[s])
                => LoadMetadata' = [ok |-> TRUE, files |-> sfiles'[s]]]_vars

(***************************************************************************)
(* Properties of kill()                                                    *)
(***************************************************************************)
\* C30: kill() that reads a PID in the PID file sends SIGKILL to that PID
\* as its first act - no signal sent before it, SIGTERM never, no poll of
\* the process - and goes on to remove the PID file and return Ok; kill()
\* that reads no PID returns "not running" and sends no signal
C30_KillIsForcedAndCleansUp ==
    [][\A c \in Clients :
          /\ (cpc[c] = "kill_send" /\ Steps(c) /\ GetPid # 0)
                => /\ opSig[c] = {} /\ polls[c] = 0
                   /\ opSig'[c] \subseteq {<<"SIGKILL", GetPid>>}
                   /\ polls'[c] = 0
                   /\ cpc'[c] = "kill_cleanup"
          /\ (cpc[c] = "kill_cleanup" /\ Steps(c))
                => /\ ~pidFile'.present
                   /\ cpc'[c] = "idle" /\ cres'[c] = "ok"
                   /\ NoSignalSent(c) /\ polls'[c] = 0
          /\ (cpc[c] = "kill_send" /\ Steps(c) /\ GetPid = 0)
                => /\ cpc'[c] = "idle" /\ cres'[c] = "not_running"
                   /\ NoSignalSent(c)
                   /\ pidFile' = pidFile]_vars

\* the part of C30 the code keeps: over a PID file naming a process that
\* exists kill() delivers SIGKILL and nothing else and then removes the PID
\* file; with no PID to read it returns "not running"; and over a PID file
\* naming no process the SIGKILL cannot be sent, kill() returns that error
\* and the PID file stays
KillOfAProcessThatExists ==
    [][\A c \in Clients :
          /\ (cpc[c] = "kill_send" /\ Steps(c) /\ GetPid # 0 /\ ProcessExists(GetPid))
                => /\ opSig[c] = {} /\ polls[c] = 0
                   /\ opSig'[c] = {<<"SIGKILL", GetPid>>}
                   /\ GetPid \in dying'
                   /\ polls'[c] = 0
                   /\ cpc'[c] = "kill_cleanup"
          /\ (cpc[c] = "kill_cleanup" /\ Steps(c))
                => /\ ~pidFile'.present
                   /\ cpc'[c] = "idle" /\ cres'[c] = "ok"
                   /\ NoSignalSent(c) /\ polls'[c] = 0
          /\ (cpc[c] = "kill_send" /\ Steps(c) /\ GetPid = 0)
                => /\ cpc'[c] = "idle" /\ cres'[c] = "not_running"
                   /\ NoSignalSent(c)
                   /\ pidFile' = pidFile
          /\ (cpc[c] = "kill_send" /\ Steps(c) /\ GetPid # 0 /\ ~ProcessExists(GetPid))
                => /\ cpc'[c] = "idle" /\ cres'[c] = "sigkill_failed"
                   /\ NoSignalSent(c)
                   /\ pidFile' = pidFile]_vars

(***************************************************************************)
(* Properties of restart() and status()                                    *)
(***************************************************************************)
StartPcs == {"start_check", "start_purge", "start_validate", "start_daemonize"}

\* the errors stop() returns
StopFailures ==
    {"not_running", "read_pid_failed", "sigterm_failed", "sigkill_failed", "kill_failed"}

\* C31: in a restart(), start() begins only where restart() found no daemon
\* running or where stop() has returned Ok (the process it stopped is gone),
\* and it begins at its first line; no process is created while stop() is
\* under way; stop() ending in an error ends restart() with that error, no
\* start() attempted; and what start() returns - "already running", the
\* failed precondition, the failure to daemonize, or success - is what
\* restart() returns
C31_RestartIsStopThenStart ==
    [][\A c \in Clients :
          (cop[c] = "restart" /\ cpc[c] # "idle" /\ Steps(c)) =>
              /\ (cpc[c] \notin StartPcs /\ cpc'[c] \in StartPcs)
                    => /\ cpc'[c] = "start_check"
                       /\ ~IsRunning
                       /\ cpc[c] \in {"restart_check", "stop_poll", "stop_escalate",
                                       "stop_verify"}
                       /\ cres'[c] = "pending"
              /\ cpc[c] \in StopPcs
                    => /\ NoProcessCreated
                       /\ cpc'[c] \in StopPcs \cup {"start_check", "idle"}
                       /\ cpc'[c] = "idle" => cres'[c] \in StopFailures
                       /\ cpc[c] = "stop_purge"
                             => cpc'[c] = "idle" /\ cres'[c] = "not_running"
                       /\ (cpc[c] = "stop_verify" /\ IsRunning)
                             => cpc'[c] = "idle" /\ cres'[c] = "kill_failed"
              /\ cpc[c] \in StartPcs
                    => /\ cpc'[c] \in StartPcs \cup {"idle"}
                       /\ (cpc[c] = "start_check" /\ IsRunning)
                             => cpc'[c] = "idle" /\ cres'[c] = "already_running"
                       /\ (cpc[c] = "start_validate" /\ StartPrecondition # "met")
                             => cpc'[c] = "idle" /\ cres'[c] = StartPrecondition
                       /\ cpc[c] = "start_daemonize"
                             => /\ cpc'[c] = "idle"
                                /\ cres'[c] \in {"log_failed", "daemonize_failed",
                                                  "daemonized"}
                                /\ cres'[c] = "daemonized" <=> ~NoProcessCreated]_vars

\* a restart() has stopped the daemon with SIGTERM and then started a new one
C31_Witness ==
    \E c \in Clients :
        /\ cop[c] = "restart" /\ cpc[c] = "idle" /\ cres[c] = "daemonized"
        /\ \E p \in PIDs : <<"SIGTERM", p>> \in opSig[c] /\ p \notin alive
        /\ alive # {}

\* C37: a restart() that finds no daemon running (no PID file, no PID in
\* it, or the PID of no process) goes from its check straight to the first
\* line of start(), sending no signal and leaving no stale PID file; from
\* there it takes no step of stop() and does not return "not running": it
\* returns what start() returns
C37_RestartWithoutDaemon ==
    [][\A c \in Clients :
          /\ (cop[c] = "restart" /\ cpc[c] = "restart_check" /\ Steps(c) /\ ~IsRunning)
                => /\ cpc'[c] = "start_check"
                   /\ cres'[c] = "pending"
                   /\ NoSignalSent(c)
                   /\ opSig[c] = {}
                   /\ polls'[c] = 0
                   /\ ~pidFile'.present \/ pidFile' = pidFile
                   /\ (pidFile.present /\ GetPid # 0) => ~pidFile'.present
          /\ (cop[c] = "restart" /\ cpc[c] \in StartPcs /\ Steps(c) /\ opSig[c] = {})
                => /\ cpc'[c] \notin StopPcs
                   /\ opSig'[c] = {}
                   /\ cres'[c] \notin StopFailures
                   /\ cpc'[c] = "idle"
                         => cres'[c] \in {"already_running", "disabled", "metadata_failed",
                                          "no_files", "log_failed", "daemonize_failed",
                                          "daemonized"}]_vars

\* a restart() called after the daemon had ended has started a new one
\* without sending a signal to anyone
C37_Witness ==
    \E c \in Clients :
        /\ cop[c] = "restart" /\ cpc[c] = "idle" /\ cres[c] = "daemonized"
        /\ opSig[c] = {}
        /\ nextPid = 3
        /\ Cardinality(alive) = 1

\* the PID the PID file holds, 0 when there is no file or its text is no PID
RecordedPid == IF pidFile.present THEN ParsePid(pidFile.text) ELSE 0

\* the auto-backup switch as the settings give it (off when they give none)
SettingOn == settingsDoc.present /\ settingsDoc.auto_backup_enabled

\* C32: status() answers with one of four texts, fixed by the PID file, the
\* process and the settings: "running" with auto-backup enabled for a live
\* process and the setting on, "running but auto-backup disabled" for a live
\* process and the setting off, "stale" for a PID file naming no process,
\* "not running" when there is no PID to read
C32_StatusHasFourOutcomes ==
    [][\A c \in Clients :
          (cpc[c] = "status_read" /\ Steps(c)) =>
              /\ cpc'[c] = "idle"
              /\ cres'[c] = IF RecordedPid = 0 THEN "not_running"
                            ELSE IF RecordedPid \notin alive THEN "stale"
                            ELSE IF SettingOn THEN "running_enabled"
                            ELSE "running_disabled"]_vars

\* C32 as amended: a fifth text, "running" with the PID alone, is given for
\* a live process when the settings cannot be loaded; the other four are
\* given as the claim says, "disabled" only for settings that were loaded
\* and have the switch off.  status() sends no signal and starts no process
C32_StatusHasFiveOutcomes ==
    [][\A c \in Clients :
          (cpc[c] = "status_read" /\ Steps(c)) =>
              /\ cpc'[c] = "idle"
              /\ cres'[c] = IF RecordedPid = 0 THEN "not_running"
                            ELSE IF RecordedPid \notin alive THEN "stale"
                            ELSE IF ~settingsDoc.present THEN "running"
                            ELSE IF settingsDoc.auto_backup_enabled THEN "running_enabled"
                            ELSE "running_disabled"
              /\ NoSignalSent(c)
              /\ NoProcessCreated]_vars

\* status() has answered "running" with the PID alone for a daemon that is
\* alive while the settings cannot be loaded
C32_Witness ==
    \E c \in Clients :
        /\ cop[c] = "status" /\ cpc[c] = "idle" /\ cres[c] = "running"
        /\ RecordedPid \in alive
        /\ ~settingsDoc.present

\* C38: status() over a PID file that names no process answers "stale" and
\* the file is gone when it returns; and a status() called right after one
\* that answered "stale", no start() called in between, does not answer
\* "stale" again: what it has to report is "not running"
C38_StaleIsReportedOnce ==
    [][\A c \in Clients :
          /\ (cpc[c] = "status_read" /\ Steps(c) /\ RecordedPid # 0
                  /\ RecordedPid \notin alive)
                => cres'[c] = "stale" /\ ~pidFile'.present
          /\ (cop[c] = "status" /\ cpc[c] = "idle" /\ cres[c] = "stale"
                  /\ cpc'[c] = "status_read")
                => StatusText' = "not_running"]_vars

\* the part of C38 that holds whatever the daemons do: the stale PID file
\* is deleted by the status() that reports it
StatusPurgesTheStaleFile ==
    [][\A c \in Clients :
          (cpc[c] = "status_read" /\ Steps(c) /\ RecordedPid # 0
              /\ RecordedPid \notin alive)
            => cres'[c] = "stale" /\ ~pidFile'.present]_vars

\* and, as long as start() has made one daemon only, the status() that
\* follows the one that answered "stale" has "not running" to report
StaleOnceWithOneDaemon ==
    [][\A c \in Clients :
          (cop[c] = "status" /\ cpc[c] = "idle" /\ cres[c] = "stale"
              /\ cpc'[c] = "status_read" /\ nextPid <= 2)
            => StatusText' = "not_running"]_vars

(***************************************************************************)
(* Properties of backup_now() and the GUI over the index                   *)
(***************************************************************************)
\* the step copies no file, changes no record and writes no document
NothingTouched ==
    /\ copied' = {}
    /\ bak' = bak
    /\ smeta' = smeta
    /\ sfiles' = sfiles
    /\ doc' = doc
    /\ saves' = saves

\* a Backup Now can be asked of session s
CanAskBackupNow(s) == bpc[s] = "idle" /\ msgs[s] < MaxMessages /\ smeta[s].some

PoisonedLockIsAnError ==
    /\ [][\A s \in Sessions :
             UpdateNow(s) /\ smeta[s].lock = "poisoned"
                 => sret'[s] = -3 /\ NothingTouched]_vars
    /\ [](\A s \in Sessions :
             CanAskBackupNow(s) /\ smeta[s].lock = "poisoned" => ENABLED UpdateNow(s))
\* the records session s has deleted: held when the session began, no longer
\* in self.files
Deleted(s) == DOMAIN TwoRecords \ DOMAIN sfiles[s]

\* C34: once DeleteFile has removed a record and saved the index, no later
\* Backup Now of the session puts the record back into the saved index or
\* makes its backup copy again
C34_DeletedStaysDeleted ==
    \A f \in Deleted(1) :
        /\ LoadMetadata.ok => f \notin DOMAIN LoadMetadata.files
        /\ bak[TwoRecords[f].backup_path] = 0

\* the part of C34 that DeleteFile does itself: its step leaves the saved
\* index without the record and the backup root without the copy
DeleteFileRemovesRecordAndCopy ==
    [][\A f \in Files :
          DeleteFile(1, f)
            => /\ LoadMetadata'.ok
               /\ f \notin DOMAIN LoadMetadata'.files
               /\ bak'[TwoRecords[f].backup_path] = 0]_vars

\* and what brings the record back: self.metadata, which DeleteFile leaves
\* alone, still holds every record the session has deleted
DeletedStaysInMetadata ==
    \A f \in Deleted(1) : f \in DOMAIN smeta[1].files
(***************************************************************************)
(* Properties of the backup paths backup() gives                           *)
(***************************************************************************)
\* no two records of the index share a backup path
DistinctBackupPaths(files) ==
    \A f, g \in DOMAIN files :
        f # g => files[f].backup_path # files[g].backup_path

\* C35: whatever source roots backup() has been given, the saved index never
\* holds two records of different original paths with one backup path
C35_BackupPathsAreDistinct ==
    LoadMetadata.ok => DistinctBackupPaths(LoadMetadata.files)

\* the part of C35 that holds: the records of one source root have backup
\* paths of their own
DistinctWithinOneRoot ==
    LoadMetadata.ok =>
        \A root \in Roots :
            DistinctBackupPaths([f \in {g \in DOMAIN LoadMetadata.files : g[1] = root}
                                    |-> LoadMetadata.files[f]])
(***************************************************************************)
(* Properties of a copy that fails inside backup_now()                     *)
(***************************************************************************)
\* the records of `files` whose original exists, hashes and differs from the
\* stored hash, and whose copy to the backup path fails
CopyFails(files) ==
    {k \in DOMAIN files :
        NeedsBackup(files[k]) /\ ~CanCopy(k, files[k].backup_path)}

\* the records of `files` that need a copy and whose copy works
CopyWorksFor(files) ==
    {k \in DOMAIN files :
        NeedsBackup(files[k]) /\ CanCopy(k, files[k].backup_path)}

\* C36: in backup_now(), a changed file whose copy fails keeps its stored
\* hash and is not counted, and the other records are gone through all the
\* same: each of them that needs a copy is copied, counted and given its new
\* hash
C36_FailedCopyIsSkipped ==
    [][\A s \in Sessions :
          UpdateNow(s) /\ smeta[s].lock = "free"
            => LET files == smeta[s].files
               IN /\ \A k \in CopyFails(files) :
                        /\ smeta'[s].files[k].hash = files[k].hash
                        /\ k \notin copied'
                        /\ flog'[k] = <<"hash", "copy_failed">>
                  /\ sret'[s] \in {-2, Cardinality(CopyWorksFor(files))}
                  /\ \A k \in CopyWorksFor(files) :
                        /\ k \in copied'
                        /\ smeta'[s].files[k].hash = CalculateHash(k).hash
                        /\ flog'[k] = <<"hash", "copy", "record">>]_vars

\* a backup_now() has just returned 1: of two changed files one copy failed
\* and kept its hash, the other was copied
C36_Witness ==
    /\ sret[1] = 1
    /\ \E k, m \in DOMAIN smeta[1].files :
           /\ flog[k] = <<"hash", "copy_failed">>
           /\ smeta[1].files[k].hash # CalculateHash(k).hash
           /\ flog[m] = <<"hash", "copy", "record">>
           /\ m \in copied
====
